---- MODULE Spec2Model ----
(***************************************************************************)
(* A model of the recursive-descent parser of the interpreter              *)
(* (src/src/parser.rs): Parser::parse, its statement-level error recovery  *)
(* (sync) and the whole statement and expression grammar, as pure          *)
(* operators over the token vector, driven by a state machine that takes   *)
(* one iteration of parse's top-level loop per step.                       *)
(***************************************************************************)
EXTENDS Integers, Sequences, FiniteSets, TLC

VARIABLES
    tokens,         \* Parser.tokens: the token vector, ending in its only Eof
    current_index,  \* Parser.current_index (0-based, as in the source)
    current_line,   \* Parser.current_line
    statements,     \* parse's local `statements`
    errors,         \* parse's local `errors`
    pc,             \* "loop": inside parse's while loop; "done": parse returned
    result,         \* the value parse returned (NoResult before it returns)
    calls,          \* history: one record per top-level statement() call
    run_pc,         \* where main.rs's run is: "tokenize", "parse", "interpret", "returned"
    tokenize_result,  \* "none" before tokenizer.tokenize() returns, then "Ok" or "Err"
    interpreted,    \* history: the argument of every interpreter.interpret call
    reported,       \* history: the lines report_errors has written to stdout
    main_pc,        \* where main.rs's main is ("none": main is not running)
    args,           \* env::args().len(): the program name and its arguments
    interpreters,   \* the number of Interpreter::new() calls made
    lines_read,     \* the number of lines run_prompt has read
    runs            \* history: [line, interpreter] of every run call of run_prompt

run_vars == <<run_pc, tokenize_result, interpreted>>
main_vars == <<main_pc, args, interpreters, lines_read, runs>>
vars == <<tokens, current_index, current_line, statements, errors, pc, result, calls,
          run_pc, tokenize_result, interpreted, reported,
          main_pc, args, interpreters, lines_read, runs>>

----------------------------------------------------------------------------
(* Bounds of the explored inputs. *)

\* longest enumerated statement-level token sequence (Eof not counted)
MaxLen == 4
\* most binary operators in an enumerated operator chain
MaxOps == 3
\* The most `{` tokens in an enumerated token sequence.
MaxNest == 1
\* The longest run of prefix operators in front of an operand.
MaxPrefix == 3
\* The most lines run_prompt reads.
MaxLines == 2
\* The most postfix operations after one primary.
MaxPostfix == 3
\* The most errors in a list handed to report_errors on its own.
MaxErrors == 2

----------------------------------------------------------------------------
(* Tokens: {type_, lexeme, literal, line}. *)

NullLiteral == <<"Null", "">>

Token(type_, lexeme, literal, line) ==
    [type_ |-> type_, lexeme |-> lexeme, literal |-> literal, line |-> line]

\* The lexeme of the token kinds whose text is fixed.
FixedLexeme ==
    "LeftParen" :> "(" @@ "RightParen" :> ")" @@ "LeftCurly" :> "{" @@
    "RightCurly" :> "}" @@ "LeftSquare" :> "[" @@ "RightSquare" :> "]" @@
    "Comma" :> "," @@ "Colon" :> ":" @@ "Semicolon" :> ";" @@
    "Equal" :> "=" @@ "EqualEqual" :> "==" @@ "Bang" :> "!" @@
    "BangEqual" :> "!=" @@ "Greater" :> ">" @@ "Less" :> "<" @@
    "GreaterEqual" :> ">=" @@ "LessEqual" :> "<=" @@ "Plus" :> "+" @@
    "Minus" :> "-" @@ "Star" :> "*" @@ "Slash" :> "/" @@ "Percent" :> "%" @@
    "And" :> "and" @@ "Or" :> "or" @@ "True" :> "true" @@
    "False" :> "false" @@ "Null" :> "null" @@ "Break" :> "break" @@
    "Else" :> "else" @@ "For" :> "for" @@ "Func" :> "func" @@ "If" :> "if" @@
    "Print" :> "print" @@ "Return" :> "return" @@ "Var" :> "var" @@
    "While" :> "while" @@ "Eof" :> ""

\* A token without its line: <<type_, lexeme, literal>>.
T(type_) == <<type_, FixedLexeme[type_], NullLiteral>>
Id(name) == <<"Identifier", name, NullLiteral>>
Num(n) == <<"Number", n, <<"Number", n>>>>
Str(s) == <<"String_", s, <<"String_", s>>>>

\* The tokens of one source line.
OnLine(seq, line) == [k \in 1..Len(seq) |-> Token(seq[k][1], seq[k][2], seq[k][3], line)]

----------------------------------------------------------------------------
(* AST nodes (expr.rs / stmt.rs as the parser builds them): every node     *)
(* carries `line`; `node` is the variant of ExprType / StmtType.           *)

Literal(line, value) == [node |-> "Literal", line |-> line, value |-> value]
Grouping(line, e) == [node |-> "Grouping", line |-> line, expression |-> e]
Unary(line, op, right) == [node |-> "Unary", line |-> line, operator |-> op, right |-> right]
Binary(line, left, op, right) ==
    [node |-> "Binary", line |-> line, left |-> left, operator |-> op, right |-> right]
AssignmentExpr(line, target, value) ==
    [node |-> "Assignment", line |-> line, target |-> target, value |-> value]
Variable(line, name) == [node |-> "Variable", line |-> line, name |-> name]
CallExpr(line, callee, arguments) ==
    [node |-> "Call", line |-> line, callee |-> callee, arguments |-> arguments]
ElementExpr(line, array, index) ==
    [node |-> "Element", line |-> line, array |-> array, index |-> index]
ArrayExpr(line, elements) == [node |-> "Array", line |-> line, elements |-> elements]
DictionaryExpr(line, elements) == [node |-> "Dictionary", line |-> line, elements |-> elements]
KeyValue(key, value) == [key |-> key, value |-> value]

BreakStmt(line) == [node |-> "Break", line |-> line]
ExpressionStmt(line, e) == [node |-> "Expression", line |-> line, expression |-> e]
PrintStmt(line, e) == [node |-> "Print", line |-> line, expression |-> e]
\* Option<Expr> is a sequence of length 0 (None) or 1 (Some).
ReturnStmt(line, opt) == [node |-> "Return", line |-> line, expression |-> opt]
VarDeclStmt(line, name, value) == [node |-> "VarDecl", line |-> line, name |-> name, value |-> value]
BlockStmt(line, body) == [node |-> "Block", line |-> line, body |-> body]
WhileStmt(line, condition, body) ==
    [node |-> "While", line |-> line, condition |-> condition, body |-> body]
IfStmt(line, condition, then_body, else_body) ==
    [node |-> "If", line |-> line, condition |-> condition,
     then_body |-> then_body, else_body |-> else_body]
FunctionStmt(line, name, parameters, body) ==
    [node |-> "Function", line |-> line, name |-> name,
     parameters |-> parameters, body |-> body]

\* ErrorType values the parser builds.
ExpectedCharacter(expected, line) ==
    [kind |-> "ExpectedCharacter", expected |-> expected, line |-> line]
ErrorAt(kind, line) == [kind |-> kind, line |-> line]

----------------------------------------------------------------------------
(* The parser's cursor is s = [i |-> current_index, l |-> current_line].   *)
(* A parsing method returns Result<_, ErrorType> and leaves the cursor     *)
(* wherever it got to: [ok, v, i, l], v the value or the error.            *)

Ok(v, s) == [ok |-> TRUE, v |-> v, i |-> s.i, l |-> s.l]
Err(e, s) == [ok |-> FALSE, v |-> e, i |-> s.i, l |-> s.l]
Cursor(s) == [i |-> s.i, l |-> s.l]

\* tokens.get(index): the vector is 0-based.
TokenAt(index) == tokens[index + 1]
InRange(index) == index >= 0 /\ index < Len(tokens)

\* check_and_consume that leaves current_line as it was.
check_and_consume_keep_line(s, expected_types) ==
    IF InRange(s.i) /\ TokenAt(s.i).type_ \in expected_types
    THEN [some |-> TRUE, token |-> TokenAt(s.i), i |-> s.i + 1, l |-> s.l]
    ELSE [some |-> FALSE, token |-> <<>>, i |-> s.i, l |-> s.l]

check_and_consume(s, expected_types) ==
    IF InRange(s.i) /\ TokenAt(s.i).type_ \in expected_types
    THEN [some |-> TRUE, token |-> TokenAt(s.i), i |-> s.i + 1, l |-> TokenAt(s.i).line]
    ELSE [some |-> FALSE, token |-> <<>>, i |-> s.i, l |-> s.l]

check_next(s, expected_types) ==
    InRange(s.i) /\ TokenAt(s.i).type_ \in expected_types

\* expect that lets a missing token pass.
expect_lenient(s, expected_type, expected_char) ==
    LET c == check_and_consume(s, {expected_type})
    IN  Ok(<<>>, c)

expect(s, expected_type, expected_char) ==
    LET c == check_and_consume(s, {expected_type})
    IN  IF ~c.some THEN Err(ExpectedCharacter(expected_char, c.l), c)
        ELSE Ok(<<>>, c)

----------------------------------------------------------------------------
(* The grammar.  `let x = self.m()?; rest` is Try(m(s), LAMBDA x: rest):   *)
(* an Err is returned as it is, with the cursor where it arose.            *)
(* `let x = e; rest` is With(e, LAMBDA x: rest).  self.m() is m(s).  Each  *)
(* `while let Some(operator) = ...` loop is the recursive operator         *)
(* <name>_loop: r is the result that holds `expr` so far and the cursor.   *)

Try(r, F(_)) == IF r.ok THEN F(r) ELSE r
With(x, F(_)) == F(x)

RECURSIVE invoke(_, _), or_loop(_), and_loop(_), equality_loop(_), comparison_loop(_),
          add_sub_loop(_), mult_div_mod_loop(_), element_loop(_), call_loop(_),
          arguments_loop(_, _), elements_loop(_, _), key_values_loop(_, _),
          block_loop(_, _), parameters_loop(_, _)
RECURSIVE parameters_loop_trailing(_, _), assignment_left_loop(_), assignment_checked(_), comparison_right(_),
          add_sub_flat_loop(_)
RECURSIVE expression(_), assignment(_), or(_), and(_), equality(_),
          comparison(_), add_sub(_), mult_div_mod(_), unary(_), element(_),
          call(_), primary(_), statement(_), block(_), for_(_), function(_),
          if_(_), else_body(_), print(_), return_(_), var(_), while_(_)

\* self.<method>() for the right operand of a binary operator.
invoke(method, s) ==
    CASE method = "and" -> and(s)
      [] method = "equality" -> equality(s)
      [] method = "comparison" -> comparison(s)
      [] method = "add_sub" -> add_sub(s)
      [] method = "mult_div_mod" -> mult_div_mod(s)
      [] method = "unary" -> unary(s)

\* expr -> assignment
expression(s) == assignment(s)

\* assignment as  or ("=" or)*, folded to the left.
assignment_left_loop(r) ==
    With(check_and_consume(r, {"Equal"}), LAMBDA c:
        IF ~c.some THEN r
        ELSE Try(or(c), LAMBDA value:
                 assignment_left_loop(Ok(AssignmentExpr(value.l, r.v, value.v), value))))

assignment_left(s) == Try(or(s), LAMBDA expr: assignment_left_loop(expr))

\* assignment with the target check that parser.rs has commented out.
assignment_checked(s) ==
    Try(or(s), LAMBDA expr:
    With(check_and_consume(expr, {"Equal"}), LAMBDA c:
        IF c.some
        THEN Try(assignment_checked(c), LAMBDA value:
                 IF expr.v.node \in {"Element", "Variable"}
                 THEN Ok(AssignmentExpr(value.l, expr.v, value.v), value)
                 ELSE Err(ErrorAt("InvalidAssignmentTarget", value.l), value))
        ELSE expr))

\* assignment -> or "=" assignment.  The target is not inspected.
assignment(s) ==
    Try(or(s), LAMBDA expr:
    With(check_and_consume(expr, {"Equal"}), LAMBDA c:
        IF c.some
        THEN Try(assignment(c), LAMBDA value:
                 Ok(AssignmentExpr(value.l, expr.v, value.v), value))
        ELSE expr))

\* or -> and ("or" and)*
or_loop(r) ==
    With(check_and_consume(r, {"Or"}), LAMBDA c:
        IF ~c.some THEN r
        ELSE Try(invoke("and", c), LAMBDA right:
                 or_loop(Ok(Binary(right.l, r.v, c.token, right.v), right))))

or(s) == Try(and(s), LAMBDA expr: or_loop(expr))

\* and -> equality ("and" equality)*
and_loop(r) ==
    With(check_and_consume(r, {"And"}), LAMBDA c:
        IF ~c.some THEN r
        ELSE Try(invoke("equality", c), LAMBDA right:
                 and_loop(Ok(Binary(right.l, r.v, c.token, right.v), right))))

and(s) == Try(equality(s), LAMBDA expr: and_loop(expr))

\* equality -> comparison (("==" | "!=") comparison)*
equality_loop(r) ==
    With(check_and_consume(r, {"EqualEqual", "BangEqual"}), LAMBDA c:
        IF ~c.some THEN r
        ELSE Try(invoke("comparison", c), LAMBDA right:
                 equality_loop(Ok(Binary(right.l, r.v, c.token, right.v), right))))

equality(s) == Try(comparison(s), LAMBDA expr: equality_loop(expr))

\* comparison with the right operand parsed by comparison itself.
comparison_right(s) ==
    Try(add_sub(s), LAMBDA left:
    With(check_and_consume(left, {"Greater", "Less", "GreaterEqual", "LessEqual"}), LAMBDA c:
        IF ~c.some THEN left
        ELSE Try(comparison_right(c), LAMBDA right:
                 Ok(Binary(right.l, left.v, c.token, right.v), right))))

\* comparison -> add_sub ((">" | "<" | ">=" | "<=") add_sub)*
comparison_loop(r) ==
    With(check_and_consume(r, {"Greater", "Less", "GreaterEqual", "LessEqual"}), LAMBDA c:
        IF ~c.some THEN r
        ELSE Try(invoke("add_sub", c), LAMBDA right:
                 comparison_loop(Ok(Binary(right.l, r.v, c.token, right.v), right))))

comparison(s) == Try(add_sub(s), LAMBDA expr: comparison_loop(expr))

\* add_sub that takes * / % for operators of its own level.
add_sub_flat_loop(r) ==
    With(check_and_consume(r, {"Plus", "Minus", "Star", "Slash", "Percent"}), LAMBDA c:
        IF ~c.some THEN r
        ELSE Try(unary(c), LAMBDA right:
                 add_sub_flat_loop(Ok(Binary(right.l, r.v, c.token, right.v), right))))

add_sub_flat(s) == Try(unary(s), LAMBDA expr: add_sub_flat_loop(expr))

\* add_sub -> mult_div_mod (("+" | "-") mult_div_mod)*
add_sub_loop(r) ==
    With(check_and_consume(r, {"Plus", "Minus"}), LAMBDA c:
        IF ~c.some THEN r
        ELSE Try(invoke("mult_div_mod", c), LAMBDA right:
                 add_sub_loop(Ok(Binary(right.l, r.v, c.token, right.v), right))))

add_sub(s) == Try(mult_div_mod(s), LAMBDA expr: add_sub_loop(expr))

\* mult_div_mod -> unary (("*" | "/" | "%") unary)*
mult_div_mod_loop(r) ==
    With(check_and_consume(r, {"Star", "Slash", "Percent"}), LAMBDA c:
        IF ~c.some THEN r
        ELSE Try(invoke("unary", c), LAMBDA right:
                 mult_div_mod_loop(Ok(Binary(right.l, r.v, c.token, right.v), right))))

mult_div_mod(s) == Try(unary(s), LAMBDA expr: mult_div_mod_loop(expr))

\* unary -> ("!" | "-") unary | element
\* unary that takes one prefix operator only.
unary_once(s) ==
    With(check_and_consume(s, {"Bang", "Minus"}), LAMBDA c:
        IF c.some
        THEN Try(element(c), LAMBDA right:
                 Ok(Unary(right.l, c.token, right.v), right))
        ELSE element(s))

unary(s) ==
    With(check_and_consume(s, {"Bang", "Minus"}), LAMBDA c:
        IF c.some
        THEN Try(unary(c), LAMBDA right:
                 Ok(Unary(right.l, c.token, right.v), right))
        ELSE element(s))

\* element -> call ("[" expr "]")*: the Element node is built (with the line
\* current then) before the "]" is expected.
\* An element loop that lets calls follow an index.
element_loop_then_calls(r) ==
    With(check_and_consume(r, {"LeftSquare"}), LAMBDA c:
        IF ~c.some THEN r
        ELSE Try(expression(c), LAMBDA index:
             Try(expect(index, "RightSquare", "]"), LAMBDA x:
             Try(call_loop(Ok(ElementExpr(index.l, r.v, index.v), x)), LAMBDA called:
                 element_loop(called)))))

element_loop(r) ==
    With(check_and_consume(r, {"LeftSquare"}), LAMBDA c:
        IF ~c.some THEN r
        ELSE Try(expression(c), LAMBDA index:
             Try(expect(index, "RightSquare", "]"), LAMBDA x:
                 element_loop(Ok(ElementExpr(index.l, r.v, index.v), x)))))

element(s) == Try(call(s), LAMBDA expr: element_loop(expr))

\* loop { arguments.push(expression()?); if no "," { break } }
arguments_loop(s, arguments) ==
    Try(expression(s), LAMBDA e:
    With(check_and_consume(e, {"Comma"}), LAMBDA c:
        IF ~c.some THEN Ok(Append(arguments, e.v), c)
        ELSE arguments_loop(c, Append(arguments, e.v))))

\* call -> primary ("(" (expr ("," expr)*)? ")")*
call_loop(r) ==
    With(check_and_consume(r, {"LeftParen"}), LAMBDA c:
        IF ~c.some THEN r
        ELSE Try(IF ~check_next(c, {"RightParen"}) THEN arguments_loop(c, <<>>)
                 ELSE Ok(<<>>, c), LAMBDA arguments:
             Try(expect(arguments, "RightParen", ")"), LAMBDA x:
                 call_loop(Ok(CallExpr(x.l, r.v, arguments.v), x)))))

call(s) == Try(primary(s), LAMBDA expr: call_loop(expr))

\* loop { elements.push(expression()?); if no "," { break } }
elements_loop(s, elements) ==
    Try(expression(s), LAMBDA e:
    With(check_and_consume(e, {"Comma"}), LAMBDA c:
        IF ~c.some THEN Ok(Append(elements, e.v), c)
        ELSE elements_loop(c, Append(elements, e.v))))

\* loop { key, ":", value, push; if no "," { break } }
key_values_loop(s, elements) ==
    Try(expression(s), LAMBDA key:
    With(check_and_consume(key, {"Colon"}), LAMBDA colon:
        IF ~colon.some THEN Err(ErrorAt("ExpectedColonAfterKey", colon.l), colon)
        ELSE Try(expression(colon), LAMBDA value:
             With(check_and_consume(value, {"Comma"}), LAMBDA c:
                 IF ~c.some THEN Ok(Append(elements, KeyValue(key.v, value.v)), c)
                 ELSE key_values_loop(c, Append(elements, KeyValue(key.v, value.v)))))))

\* "(" expr ")"
primary_grouping(c) ==
    Try(expression(c), LAMBDA expr:
    Try(expect(expr, "RightParen", ")"), LAMBDA x:
        Ok(Grouping(x.l, expr.v), x)))

\* "[" (expr ("," expr)*)? "]"
primary_array(c) ==
    Try(IF ~check_next(c, {"RightSquare"}) THEN elements_loop(c, <<>>)
        ELSE Ok(<<>>, c), LAMBDA elements:
    Try(expect(elements, "RightSquare", "]"), LAMBDA x:
        Ok(ArrayExpr(x.l, elements.v), x)))

\* "{" (expr ":" expr ("," expr ":" expr)*)? "}"
primary_dictionary(c) ==
    Try(IF ~check_next(c, {"RightCurly"}) THEN key_values_loop(c, <<>>)
        ELSE Ok(<<>>, c), LAMBDA elements:
    Try(expect(elements, "RightCurly", "}"), LAMBDA x:
        Ok(DictionaryExpr(x.l, elements.v), x)))

\* primary -> literals | "(" expr ")" | "[" ... "]" | "{" ... "}" | identifier
primary(s) ==
    With(check_and_consume(s, {"True", "False", "Null", "String_", "Number",
                               "LeftParen", "LeftSquare", "LeftCurly",
                               "Identifier"}), LAMBDA c:
        IF ~c.some THEN Err(ErrorAt("ExpectedExpression", s.l), s)
        ELSE CASE c.token.type_ = "True" -> Ok(Literal(c.l, <<"Bool", "true">>), c)
               [] c.token.type_ = "False" -> Ok(Literal(c.l, <<"Bool", "false">>), c)
               [] c.token.type_ = "Null" -> Ok(Literal(c.l, NullLiteral), c)
               [] c.token.type_ \in {"String_", "Number"} ->
                      Ok(Literal(c.l, c.token.literal), c)
               [] c.token.type_ = "LeftParen" -> primary_grouping(c)
               [] c.token.type_ = "LeftSquare" -> primary_array(c)
               [] c.token.type_ = "LeftCurly" -> primary_dictionary(c)
               [] c.token.type_ = "Identifier" -> Ok(Variable(c.l, c.token.lexeme), c))

(* The statement grammar.  A struct literal `Stmt { line: self.current_line,*)
(* stmt_type: ... self.expression()? ... }` reads current_line BEFORE it   *)
(* parses the expression: print and the expression statement carry the     *)
(* line current when the expression starts.                                *)

\* while !check_next([RightCurly, Eof]) { statements.push(self.statement()?) }
block_loop(s, body) ==
    IF check_next(s, {"RightCurly", "Eof"}) THEN Ok(body, s)
    ELSE Try(statement(s), LAMBDA st: block_loop(st, Append(body, st.v)))

block(s) ==
    Try(expect(s, "LeftCurly", "{"), LAMBDA open:
    Try(block_loop(open, <<>>), LAMBDA body:
    Try(expect(body, "RightCurly", "}"), LAMBDA close:
        Ok(BlockStmt(close.l, body.v), close))))

\* A desugaring that puts the increment inside the block of the body.
for_desugar_inc_inside(initialiser, condition, increment, for_body, s) ==
    LET while_loop == WhileStmt(s.l, condition,
            BlockStmt(s.l, <<[for_body EXCEPT !.body = @ \o increment]>>))
    IN  IF initialiser # <<>> THEN BlockStmt(s.l, <<initialiser[1], while_loop>>)
        ELSE while_loop

\* A desugaring that wraps the loop in a Block whatever the header holds.
for_desugar_block(initialiser, condition, increment, for_body, s) ==
    BlockStmt(s.l, initialiser \o
        <<WhileStmt(s.l, condition, BlockStmt(s.l, <<for_body>> \o increment))>>)

\* The desugaring at the end of for_: for_body is the parsed block, s the
\* cursor after it (every node built here carries that one line).
\* initialiser and increment are Option<Stmt>.
for_desugar(initialiser, condition, increment, for_body, s) ==
    IF initialiser # <<>>
    THEN BlockStmt(s.l, <<initialiser[1],
             WhileStmt(s.l, condition, BlockStmt(s.l, <<for_body>> \o increment))>>)
    ELSE WhileStmt(s.l, condition, BlockStmt(s.l, <<for_body>> \o increment))

\* An optional clause of the for header: None if `closer` is next.
for_clause(s, closer) ==
    IF ~check_next(s, {closer})
    THEN Try(statement(s), LAMBDA r: Ok(<<r.v>>, r))
    ELSE Ok(<<>>, s)

\* for_ with the errors of the two semicolons exchanged.
for_swapped(s) ==
    Try(expect(s, "LeftParen", "("), LAMBDA open:
    Try(for_clause(open, "Semicolon"), LAMBDA initialiser:
    With(check_and_consume(initialiser, {"Semicolon"}), LAMBDA semi1:
        IF ~semi1.some
        THEN Err(ErrorAt("ExpectedSemicolonAfterCondition", semi1.l), semi1) ELSE
    Try(IF ~check_next(semi1, {"Semicolon"}) THEN expression(semi1)
        ELSE Ok(Literal(semi1.l, <<"Bool", "true">>), semi1), LAMBDA condition:
    With(check_and_consume(condition, {"Semicolon"}), LAMBDA semi2:
        IF ~semi2.some
        THEN Err(ErrorAt("ExpectedSemicolonAfterInit", semi2.l), semi2) ELSE
    Try(for_clause(semi2, "RightParen"), LAMBDA increment:
    With(check_and_consume(increment, {"RightParen"}), LAMBDA close:
        IF ~close.some
        THEN Err(ErrorAt("ExpectedParenAfterIncrement", close.l), close) ELSE
    Try(block(close), LAMBDA for_body:
        Ok(for_desugar(initialiser.v, condition.v, increment.v, for_body.v, for_body),
           for_body)))))))))

for_(s) ==
    Try(expect(s, "LeftParen", "("), LAMBDA open:
    Try(for_clause(open, "Semicolon"), LAMBDA initialiser:
    With(check_and_consume(initialiser, {"Semicolon"}), LAMBDA semi1:
        IF ~semi1.some
        THEN Err(ErrorAt("ExpectedSemicolonAfterInit", semi1.l), semi1) ELSE
    Try(IF ~check_next(semi1, {"Semicolon"}) THEN expression(semi1)
        ELSE Ok(Literal(semi1.l, <<"Bool", "true">>), semi1), LAMBDA condition:
    With(check_and_consume(condition, {"Semicolon"}), LAMBDA semi2:
        IF ~semi2.some
        THEN Err(ErrorAt("ExpectedSemicolonAfterCondition", semi2.l), semi2) ELSE
    Try(for_clause(semi2, "RightParen"), LAMBDA increment:
    With(check_and_consume(increment, {"RightParen"}), LAMBDA close:
        IF ~close.some
        THEN Err(ErrorAt("ExpectedParenAfterIncrement", close.l), close) ELSE
    Try(block(close), LAMBDA for_body:
        Ok(for_desugar(initialiser.v, condition.v, increment.v, for_body.v, for_body),
           for_body)))))))))

\* A parameters loop that lets a comma end the list.
parameters_loop_trailing(s, parameters) ==
    With(check_and_consume(s, {"Identifier"}), LAMBDA parameter:
        IF ~parameter.some
        THEN (IF parameters # <<>> /\ check_next(s, {"RightParen"})
              THEN Ok(parameters, s)
              ELSE Err(ErrorAt("ExpectedParameterName", parameter.l), parameter))
        ELSE With(check_and_consume(parameter, {"Comma"}), LAMBDA c:
                 IF ~c.some THEN Ok(Append(parameters, parameter.token.lexeme), c)
                 ELSE parameters_loop_trailing(c, Append(parameters, parameter.token.lexeme))))

\* loop { parameter name or ExpectedParameterName; if no "," { break } }
parameters_loop(s, parameters) ==
    With(check_and_consume(s, {"Identifier"}), LAMBDA parameter:
        IF ~parameter.some
        THEN Err(ErrorAt("ExpectedParameterName", parameter.l), parameter)
        ELSE With(check_and_consume(parameter, {"Comma"}), LAMBDA c:
                 IF ~c.some THEN Ok(Append(parameters, parameter.token.lexeme), c)
                 ELSE parameters_loop(c, Append(parameters, parameter.token.lexeme))))

function(s) ==
    With(check_and_consume(s, {"Identifier"}), LAMBDA identifier:
        IF ~identifier.some
        THEN Err(ErrorAt("ExpectedFunctionName", identifier.l), identifier) ELSE
    Try(expect(identifier, "LeftParen", "("), LAMBDA open:
    Try(IF ~check_next(open, {"RightParen"}) THEN parameters_loop(open, <<>>)
        ELSE Ok(<<>>, open), LAMBDA parameters:
    Try(expect(parameters, "RightParen", ")"), LAMBDA close:
    Try(block(close), LAMBDA body:
        Ok(FunctionStmt(body.l, identifier.token.lexeme, parameters.v, body.v),
           body))))))

if_(s) ==
    Try(expect(s, "LeftParen", "("), LAMBDA open:
    Try(expression(open), LAMBDA condition:
    Try(expect(condition, "RightParen", ")"), LAMBDA close:
    Try(block(close), LAMBDA then_body:
    With(check_and_consume(then_body, {"Else"}), LAMBDA c:
        IF c.some
        THEN Try(else_body(c), LAMBDA els:
                 Ok(IfStmt(els.l, condition.v, then_body.v, <<els.v>>), els))
        ELSE Ok(IfStmt(c.l, condition.v, then_body.v, <<>>), c))))))

\* After `else`: another `if` (else if) or a block.
else_body(s) ==
    With(check_and_consume(s, {"If"}), LAMBDA c:
        IF c.some THEN if_(c) ELSE block(s))

print(s) == Try(expression(s), LAMBDA e: Ok(PrintStmt(s.l, e.v), e))

\* return_ that hands every error of expression() on.
return_strict(s) ==
    Try(expression(s), LAMBDA e: Ok(ReturnStmt(e.l, <<e.v>>), e))

\* An ExpectedExpression error of expression() becomes Return { None }; the
\* cursor stays where expression() left it.
return_(s) ==
    With(expression(s), LAMBDA e:
        IF e.ok THEN Ok(ReturnStmt(e.l, <<e.v>>), e)
        ELSE IF e.v.kind = "ExpectedExpression" THEN Ok(ReturnStmt(e.l, <<>>), e)
        ELSE e)

var(s) ==
    With(check_and_consume(s, {"Identifier"}), LAMBDA identifier:
        IF ~identifier.some
        THEN Err(ErrorAt("ExpectedVariableName", identifier.l), identifier) ELSE
    Try(expect(identifier, "Equal", "="), LAMBDA eq:
    Try(expression(eq), LAMBDA value:
        Ok(VarDeclStmt(value.l, identifier.token.lexeme, value.v), value))))

while_(s) ==
    Try(expect(s, "LeftParen", "("), LAMBDA open:
    Try(expression(open), LAMBDA condition:
    Try(expect(condition, "RightParen", ")"), LAMBDA close:
    Try(block(close), LAMBDA body:
        Ok(WhileStmt(body.l, condition.v, body.v), body)))))

\* A statement() that opens a block statement at a `{`.
statement_block_at_curly(s) ==
    IF check_next(s, {"LeftCurly"}) THEN block(s) ELSE
    With(check_and_consume(s, {"Break", "For", "Func", "If", "Print",
                               "Return", "Var", "While"}), LAMBDA c:
        IF ~c.some
        THEN Try(expression(s), LAMBDA e: Ok(ExpressionStmt(s.l, e.v), e))
        ELSE CASE c.token.type_ = "Break" -> Ok(BreakStmt(c.l), c)
               [] c.token.type_ = "For" -> for_(c)
               [] c.token.type_ = "Func" -> function(c)
               [] c.token.type_ = "If" -> if_(c)
               [] c.token.type_ = "Print" -> print(c)
               [] c.token.type_ = "Return" -> return_(c)
               [] c.token.type_ = "Var" -> var(c)
               [] c.token.type_ = "While" -> while_(c))

\* A statement() that takes a `break` for the interpreter's ThrownBreak.
statement_break_thrown(s) ==
    With(check_and_consume(s, {"Break", "For", "Func", "If", "Print",
                               "Return", "Var", "While"}), LAMBDA c:
        IF ~c.some
        THEN Try(expression(s), LAMBDA e: Ok(ExpressionStmt(s.l, e.v), e))
        ELSE CASE c.token.type_ = "Break" -> Err(ErrorAt("ThrownBreak", c.l), c)
               [] c.token.type_ = "For" -> for_(c)
               [] c.token.type_ = "Func" -> function(c)
               [] c.token.type_ = "If" -> if_(c)
               [] c.token.type_ = "Print" -> print(c)
               [] c.token.type_ = "Return" -> return_(c)
               [] c.token.type_ = "Var" -> var(c)
               [] c.token.type_ = "While" -> while_(c))

statement(s) ==
    With(check_and_consume(s, {"Break", "For", "Func", "If", "Print",
                               "Return", "Var", "While"}), LAMBDA c:
        IF ~c.some
        THEN Try(expression(s), LAMBDA e: Ok(ExpressionStmt(s.l, e.v), e))
        ELSE CASE c.token.type_ = "Break" -> Ok(BreakStmt(c.l), c)
               [] c.token.type_ = "For" -> for_(c)
               [] c.token.type_ = "Func" -> function(c)
               [] c.token.type_ = "If" -> if_(c)
               [] c.token.type_ = "Print" -> print(c)
               [] c.token.type_ = "Return" -> return_(c)
               [] c.token.type_ = "Var" -> var(c)
               [] c.token.type_ = "While" -> while_(c))


----------------------------------------------------------------------------
(* The inputs: token vectors as the tokenizer hands them to Parser::new,   *)
(* each ending in its only Eof.                                            *)

RECURSIVE Flatten(_, _)
Flatten(lines, k) ==
    IF k > Len(lines) THEN <<>> ELSE OnLine(lines[k], k) \o Flatten(lines, k + 1)

\* The tokens of a source text given line by line; Eof is on the last line.
Program(lines) ==
    Flatten(lines, 1) \o OnLine(<<T("Eof")>>, IF Len(lines) = 0 THEN 1 ELSE Len(lines))

(* The sources of the parser's unit tests. *)
\* for (var x = 5; x < 10; x = x + 1) {var y = x}
SrcFor ==
    Program(<< <<T("For"), T("LeftParen"), T("Var"), Id("x"), T("Equal"),
    Num("5"), T("Semicolon"), Id("x"), T("Less"), Num("10"), T("Semicolon"),
    Id("x"), T("Equal"), Id("x"), T("Plus"), Num("1"), T("RightParen"),
    T("LeftCurly"), T("Var"), Id("y"), T("Equal"), Id("x"),
    T("RightCurly")>> >>)
\* for (; x < 10; x = x + 1) {var y = x}
SrcForNoInit ==
    Program(<< <<T("For"), T("LeftParen"), T("Semicolon"), Id("x"),
    T("Less"), Num("10"), T("Semicolon"), Id("x"), T("Equal"), Id("x"),
    T("Plus"), Num("1"), T("RightParen"), T("LeftCurly"), T("Var"), Id("y"),
    T("Equal"), Id("x"), T("RightCurly")>> >>)
\* for (var x = 5 x < 10; x = x + 1) {var y = x}
SrcForNoInitSemicolon ==
    Program(<< <<T("For"), T("LeftParen"), T("Var"), Id("x"), T("Equal"),
    Num("5"), Id("x"), T("Less"), Num("10"), T("Semicolon"), Id("x"),
    T("Equal"), Id("x"), T("Plus"), Num("1"), T("RightParen"),
    T("LeftCurly"), T("Var"), Id("y"), T("Equal"), Id("x"),
    T("RightCurly")>> >>)
\* for (var x = 5; x < 10 x = x + 1) {var y = x}
SrcForNoCondSemicolon ==
    Program(<< <<T("For"), T("LeftParen"), T("Var"), Id("x"), T("Equal"),
    Num("5"), T("Semicolon"), Id("x"), T("Less"), Num("10"), Id("x"),
    T("Equal"), Id("x"), T("Plus"), Num("1"), T("RightParen"),
    T("LeftCurly"), T("Var"), Id("y"), T("Equal"), Id("x"),
    T("RightCurly")>> >>)
\* for (var x = 5; x < 10; x = x + 1 {var y = x}
SrcUnclosedFor ==
    Program(<< <<T("For"), T("LeftParen"), T("Var"), Id("x"), T("Equal"),
    Num("5"), T("Semicolon"), Id("x"), T("Less"), Num("10"), T("Semicolon"),
    Id("x"), T("Equal"), Id("x"), T("Plus"), Num("1"), T("LeftCurly"),
    T("Var"), Id("y"), T("Equal"), Id("x"), T("RightCurly")>> >>)
\* for (var x = 5; x < 10; x = x + 1) var y = x}
SrcUnopenedBlock ==
    Program(<< <<T("For"), T("LeftParen"), T("Var"), Id("x"), T("Equal"),
    Num("5"), T("Semicolon"), Id("x"), T("Less"), Num("10"), T("Semicolon"),
    Id("x"), T("Equal"), Id("x"), T("Plus"), Num("1"), T("RightParen"),
    T("Var"), Id("y"), T("Equal"), Id("x"), T("RightCurly")>> >>)
\* for (var x = 5; x < 10; x = x + 1) {var y = x
SrcUnclosedBlock ==
    Program(<< <<T("For"), T("LeftParen"), T("Var"), Id("x"), T("Equal"),
    Num("5"), T("Semicolon"), Id("x"), T("Less"), Num("10"), T("Semicolon"),
    Id("x"), T("Equal"), Id("x"), T("Plus"), Num("1"), T("RightParen"),
    T("LeftCurly"), T("Var"), Id("y"), T("Equal"), Id("x")>> >>)
\* func hello(a, b) {print a print b}
SrcFunc ==
    Program(<< <<T("Func"), Id("hello"), T("LeftParen"), Id("a"), T("Comma"),
    Id("b"), T("RightParen"), T("LeftCurly"), T("Print"), Id("a"),
    T("Print"), Id("b"), T("RightCurly")>> >>)
\* func print(a, b) {print a print b}
SrcFuncKeywordName ==
    Program(<< <<T("Func"), T("Print"), T("LeftParen"), Id("a"), T("Comma"),
    Id("b"), T("RightParen"), T("LeftCurly"), T("Print"), Id("a"),
    T("Print"), Id("b"), T("RightCurly")>> >>)
\* if (a == 2) {print a}
SrcIf ==
    Program(<< <<T("If"), T("LeftParen"), Id("a"), T("EqualEqual"), Num("2"),
    T("RightParen"), T("LeftCurly"), T("Print"), Id("a"),
    T("RightCurly")>> >>)
\* if (a == 2) {print a} else if (a == 3) {print b} else if (a == 4) {print c}
SrcElseIf ==
    Program(<< <<T("If"), T("LeftParen"), Id("a"), T("EqualEqual"), Num("2"),
    T("RightParen"), T("LeftCurly"), T("Print"), Id("a"), T("RightCurly"),
    T("Else"), T("If"), T("LeftParen"), Id("a"), T("EqualEqual"), Num("3"),
    T("RightParen"), T("LeftCurly"), T("Print"), Id("b"), T("RightCurly"),
    T("Else"), T("If"), T("LeftParen"), Id("a"), T("EqualEqual"), Num("4"),
    T("RightParen"), T("LeftCurly"), T("Print"), Id("c"),
    T("RightCurly")>> >>)
\* if (a == 2) {print a} else {print b}
SrcElse ==
    Program(<< <<T("If"), T("LeftParen"), Id("a"), T("EqualEqual"), Num("2"),
    T("RightParen"), T("LeftCurly"), T("Print"), Id("a"), T("RightCurly"),
    T("Else"), T("LeftCurly"), T("Print"), Id("b"), T("RightCurly")>> >>)
\* print 5*1+2*(3-4/a)
SrcPrint ==
    Program(<< <<T("Print"), Num("5"), T("Star"), Num("1"), T("Plus"),
    Num("2"), T("Star"), T("LeftParen"), Num("3"), T("Minus"), Num("4"),
    T("Slash"), Id("a"), T("RightParen")>> >>)
\* var a = 5
SrcVar ==
    Program(<< <<T("Var"), Id("a"), T("Equal"), Num("5")>> >>)
\* var 123 = 5
SrcInvalidVarName ==
    Program(<< <<T("Var"), Num("123"), T("Equal"), Num("5")>> >>)
\* while (a == 2) {print b}
SrcWhile ==
    Program(<< <<T("While"), T("LeftParen"), Id("a"), T("EqualEqual"),
    Num("2"), T("RightParen"), T("LeftCurly"), T("Print"), Id("b"),
    T("RightCurly")>> >>)
\* print a if (a == 2) {print a} else {print b} var c = 3
SrcMultipleStatements ==
    Program(<< <<T("Print"), Id("a"), T("If"), T("LeftParen"), Id("a"),
    T("EqualEqual"), Num("2"), T("RightParen"), T("LeftCurly"), T("Print"),
    Id("a"), T("RightCurly"), T("Else"), T("LeftCurly"), T("Print"), Id("b"),
    T("RightCurly"), T("Var"), Id("c"), T("Equal"), Num("3")>> >>)
\* 5*1+2*(3-4/a)
SrcBidmas ==
    Program(<< <<Num("5"), T("Star"), Num("1"), T("Plus"), Num("2"),
    T("Star"), T("LeftParen"), Num("3"), T("Minus"), Num("4"), T("Slash"),
    Id("a"), T("RightParen")>> >>)
\* true and true or false and true or false
SrcLogic ==
    Program(<< <<T("True"), T("And"), T("True"), T("Or"), T("False"),
    T("And"), T("True"), T("Or"), T("False")>> >>)
\* [[5, a, b], 3+1, "g"]
SrcArray ==
    Program(<< <<T("LeftSquare"), T("LeftSquare"), Num("5"), T("Comma"),
    Id("a"), T("Comma"), Id("b"), T("RightSquare"), T("Comma"), Num("3"),
    T("Plus"), Num("1"), T("Comma"), Str("g"), T("RightSquare")>> >>)
\* []
SrcEmptyArray ==
    Program(<< <<T("LeftSquare"), T("RightSquare")>> >>)
\* [[5, a, b], 3+1, "g"
SrcUnclosedArray1 ==
    Program(<< <<T("LeftSquare"), T("LeftSquare"), Num("5"), T("Comma"),
    Id("a"), T("Comma"), Id("b"), T("RightSquare"), T("Comma"), Num("3"),
    T("Plus"), Num("1"), T("Comma"), Str("g")>> >>)
\* [[5, a, b, 3+1, "g"]
SrcUnclosedArray2 ==
    Program(<< <<T("LeftSquare"), T("LeftSquare"), Num("5"), T("Comma"),
    Id("a"), T("Comma"), Id("b"), T("Comma"), Num("3"), T("Plus"), Num("1"),
    T("Comma"), Str("g"), T("RightSquare")>> >>)
\* \n[[5, a, b, 3+1, "g"]
SrcErrorLineNumbers2 ==
    Program(<< <<>>, <<T("LeftSquare"), T("LeftSquare"), Num("5"),
    T("Comma"), Id("a"), T("Comma"), Id("b"), T("Comma"), Num("3"),
    T("Plus"), Num("1"), T("Comma"), Str("g"), T("RightSquare")>> >>)
\* \n\n[[5, a, b, 3+1, "g"]
SrcErrorLineNumbers3 ==
    Program(<< <<>>, <<>>, <<T("LeftSquare"), T("LeftSquare"), Num("5"),
    T("Comma"), Id("a"), T("Comma"), Id("b"), T("Comma"), Num("3"),
    T("Plus"), Num("1"), T("Comma"), Str("g"), T("RightSquare")>> >>)
\* (5 + 5
SrcUnclosedGrouping ==
    Program(<< <<T("LeftParen"), Num("5"), T("Plus"), Num("5")>> >>)
\* a[5]
SrcElement ==
    Program(<< <<Id("a"), T("LeftSquare"), Num("5"), T("RightSquare")>> >>)
\* a[1][2]
SrcElement2d ==
    Program(<< <<Id("a"), T("LeftSquare"), Num("1"), T("RightSquare"),
    T("LeftSquare"), Num("2"), T("RightSquare")>> >>)
\* 1 < 2 == 3 > 4 <= 5 >= 6 != 7
SrcComparison ==
    Program(<< <<Num("1"), T("Less"), Num("2"), T("EqualEqual"), Num("3"),
    T("Greater"), Num("4"), T("LessEqual"), Num("5"), T("GreaterEqual"),
    Num("6"), T("BangEqual"), Num("7")>> >>)
\* a(1, "a")(bc, 2+3)
SrcCall ==
    Program(<< <<Id("a"), T("LeftParen"), Num("1"), T("Comma"), Str("a"),
    T("RightParen"), T("LeftParen"), Id("bc"), T("Comma"), Num("2"),
    T("Plus"), Num("3"), T("RightParen")>> >>)
\* a()
SrcEmptyCall ==
    Program(<< <<Id("a"), T("LeftParen"), T("RightParen")>> >>)
\* a(1, "a"(bc, 2+3)
SrcUnclosedCall1 ==
    Program(<< <<Id("a"), T("LeftParen"), Num("1"), T("Comma"), Str("a"),
    T("LeftParen"), Id("bc"), T("Comma"), Num("2"), T("Plus"), Num("3"),
    T("RightParen")>> >>)
\* a(1, "a")(bc, 2+3
SrcUnclosedCall2 ==
    Program(<< <<Id("a"), T("LeftParen"), Num("1"), T("Comma"), Str("a"),
    T("RightParen"), T("LeftParen"), Id("bc"), T("Comma"), Num("2"),
    T("Plus"), Num("3")>> >>)
\* !!--5
SrcUnary ==
    Program(<< <<T("Bang"), T("Bang"), T("Minus"), T("Minus"), Num("5")>> >>)
\* 5--4
SrcEtc ==
    Program(<< <<Num("5"), T("Minus"), T("Minus"), Num("4")>> >>)
\* print {\nfor (x = 5; x < 2; x = x + 1 {print x}
SrcSync ==
    Program(<< <<T("Print"), T("LeftCurly")>>, <<T("For"), T("LeftParen"),
    Id("x"), T("Equal"), Num("5"), T("Semicolon"), Id("x"), T("Less"),
    Num("2"), T("Semicolon"), Id("x"), T("Equal"), Id("x"), T("Plus"),
    Num("1"), T("LeftCurly"), T("Print"), Id("x"), T("RightCurly")>> >>)
\* for (var x = 5;; x = x + 1) {var y = x}
SrcForNoCond ==
    Program(<< <<T("For"), T("LeftParen"), T("Var"), Id("x"), T("Equal"),
    Num("5"), T("Semicolon"), T("Semicolon"), Id("x"), T("Equal"), Id("x"),
    T("Plus"), Num("1"), T("RightParen"), T("LeftCurly"), T("Var"), Id("y"),
    T("Equal"), Id("x"), T("RightCurly")>> >>)
\* for (var x = 5; x < 10;) {var y = x}
SrcForNoInc ==
    Program(<< <<T("For"), T("LeftParen"), T("Var"), Id("x"), T("Equal"),
    Num("5"), T("Semicolon"), Id("x"), T("Less"), Num("10"), T("Semicolon"),
    T("RightParen"), T("LeftCurly"), T("Var"), Id("y"), T("Equal"), Id("x"),
    T("RightCurly")>> >>)

\* a = b = 5 (the example of the comment on assignment)
SrcAssignmentChain ==
    Program(<< <<Id("a"), T("Equal"), Id("b"), T("Equal"), Num("5")>> >>)

TestSources ==
    {SrcFor, SrcForNoInit, SrcForNoInitSemicolon, SrcForNoCondSemicolon,
    SrcUnclosedFor, SrcUnopenedBlock, SrcUnclosedBlock, SrcFunc,
    SrcFuncKeywordName, SrcIf, SrcElseIf, SrcElse, SrcPrint, SrcVar,
    SrcInvalidVarName, SrcWhile, SrcMultipleStatements, SrcBidmas, SrcLogic,
    SrcArray, SrcEmptyArray, SrcUnclosedArray1, SrcUnclosedArray2,
    SrcErrorLineNumbers2, SrcErrorLineNumbers3, SrcUnclosedGrouping,
    SrcElement, SrcElement2d, SrcComparison, SrcCall, SrcEmptyCall,
    SrcUnclosedCall1, SrcUnclosedCall2, SrcUnary, SrcEtc, SrcSync,
    SrcForNoCond, SrcForNoInc, SrcAssignmentChain}

\* A test source with one of its tokens (not the Eof) left out.
Without(seq, k) == [j \in 1..(Len(seq) - 1) |-> IF j < k THEN seq[j] ELSE seq[j + 1]]
Damaged == {Without(src, k) : <<src, k>> \in
               UNION {{src} \X (1..(Len(src) - 1)) : src \in TestSources}}

\* Lexemes for enumerated identifiers and numbers, by position.
Names == <<"a", "b", "c", "d", "e", "f", "g", "h", "i", "j", "k", "l">>
Digits == <<"1", "2", "3", "4", "5", "6", "7", "8", "9", "10", "11", "12">>
Lexed(type_, k) ==
    IF type_ = "Identifier" THEN Id(Names[k])
    ELSE IF type_ = "Number" THEN Num(Digits[k])
    ELSE T(type_)

\* types followed by Eof; the tokens after position `brk` are on line 2.
Tokens(types, brk) ==
    [k \in 1..(Len(types) + 1) |->
        LET t == IF k <= Len(types) THEN Lexed(types[k], k) ELSE T("Eof")
        IN  Token(t[1], t[2], t[3], IF k <= brk THEN 1 ELSE 2)]

SeqsUpTo(S, n) == UNION {[1..m -> S] : m \in 0..n}

\* Every short sequence of statement-level tokens, on one line.
StmtAlphabet == {"Print", "Var", "Break", "Return", "Identifier", "Number",
                 "Equal", "LeftCurly", "RightCurly"}
Opening(types) == Cardinality({k \in 1..Len(types) : types[k] = "LeftCurly"})
Enumerated == {Tokens(types, Len(types) + 1) : types \in
                  {ts \in SeqsUpTo(StmtAlphabet, MaxLen) : Opening(ts) <= MaxNest}}

\* Every short sequence over a smaller alphabet, with every place of one
\* line break (before the first token, between two tokens, before Eof, none).
LineAlphabet == {"Print", "Var", "Break", "Identifier", "Equal", "RightCurly"}
EnumeratedLines == {Tokens(ts[1], ts[2]) : ts \in
                       UNION {{types} \X (0..Len(types)) : types \in SeqsUpTo(LineAlphabet, MaxLen)}}

\* Operator chains x op y op ... with every choice of operators, and with
\* one pair of neighbouring operands in parentheses (grp = 0: none); the
\* operators are those of assignment and one or two of each binary level.
ChainOps == {"Equal", "Or", "And", "EqualEqual", "BangEqual", "Less", "GreaterEqual",
             "Plus", "Minus", "Star", "Percent"}
Operand(k) == IF k % 2 = 1 THEN "Identifier" ELSE "Number"
RECURSIVE Chain(_, _, _)
Chain(ops, grp, k) ==
    IF k > Len(ops) + 1 THEN <<>>
    ELSE (IF k = grp THEN <<"LeftParen">> ELSE <<>>) \o <<Operand(k)>> \o
         (IF k = grp + 1 /\ grp > 0 THEN <<"RightParen">> ELSE <<>>) \o
         (IF k <= Len(ops) THEN <<ops[k]>> ELSE <<>>) \o Chain(ops, grp, k + 1)
Chains == {Tokens(Chain(c[1], c[2], 1), 2 * Len(c[1]) + 4) : c \in
              UNION {{ops} \X (0..Len(ops)) : ops \in SeqsUpTo(ChainOps, MaxOps)}}

\* return followed by an expression that starts and then breaks off.
ReturnSources ==
    {Program(<< <<T("Return"), Num("1"), T("Plus")>> >>),
     Program(<< <<T("Return"), T("LeftParen")>> >>),
     Program(<< <<T("Return"), T("LeftSquare"), Num("1"), T("Comma")>> >>),
     Program(<< <<T("Func"), Id("f"), T("LeftParen"), T("RightParen"), T("LeftCurly"),
                  T("Return"), T("RightCurly")>> >>),
     Program(<< <<T("Return")>>, <<T("Return"), T("Else")>>,
                <<T("Return"), Num("1"), T("Plus"), Num("2")>> >>)}

\* func declarations: with and without a name, (, parameters, ) and body.
FuncNames == {<<>>, <<Id("f")>>, <<T("Print")>>}
FuncOpens == {<<>>, <<T("LeftParen")>>}
FuncParameters ==
    {<<>>, <<Id("a")>>, <<Id("a"), T("Comma"), Id("b")>>, <<Id("a"), T("Comma")>>,
     <<T("Comma")>>, <<Id("a"), Id("b")>>, <<Num("1")>>,
     <<Id("a"), T("Comma"), T("Var")>>}
FuncCloses == {<<>>, <<T("RightParen")>>}
FuncBodies == {<<>>, <<T("LeftCurly"), T("RightCurly")>>, <<T("LeftCurly")>>,
               <<T("LeftCurly"), T("Return"), Id("a"), T("RightCurly")>>}
FuncSources ==
    {Program(<< <<T("Func")>> \o f[1] \o f[2] \o f[3] \o f[4] \o f[5] >>) :
        f \in FuncNames \X FuncOpens \X FuncParameters \X FuncCloses \X FuncBodies}

\* Runs of prefix operators in front of an operand, at the start of an
\* expression or after a binary operator, with and without a binary operator
\* behind the operand.
UnaryLefts == {<<>>, <<"Number", "Minus">>, <<"Identifier", "Star">>, <<"Identifier", "And">>}
UnaryRights == {<<>>, <<"Star", "Number">>, <<"LeftSquare", "Number", "RightSquare">>}
UnarySources ==
    {Tokens(u[1] \o u[2] \o <<"Identifier">> \o u[3], Len(u[1] \o u[2] \o u[3]) + 2) :
        u \in UnaryLefts \X SeqsUpTo({"Bang", "Minus"}, MaxPrefix) \X UnaryRights}

\* Constructs that are complete up to a closing delimiter, or up to the `{`
\* of a body, which is not there: `lead` is what stands in front of the
\* construct, `rest` what stands in the delimiter's place, and `after` is the
\* second line.
Contents == {<<Num("1")>>, <<Id("a"), T("Plus"), Num("1")>>}
ExprLeads == {<<>>, <<T("Print")>>, <<T("Return")>>, <<T("Var"), Id("x"), T("Equal")>>}
Afters == {<<>>, << <<T("Print"), Num("2")>> >>}
Unclosed(leads, openers, contents, rests) ==
    {Program(<<u[1] \o u[2] \o u[3] \o u[4]>> \o u[5]) :
        u \in leads \X openers \X contents \X rests \X Afters}
MissingRightParen ==
    Unclosed(ExprLeads,
             {<<T("LeftParen")>>, <<Id("f"), T("LeftParen")>>,
              <<Id("f"), T("LeftParen"), Num("2"), T("Comma")>>,
              <<Id("f"), T("LeftParen"), T("RightParen"), T("LeftParen")>>},
             Contents, {<<>>, <<T("RightSquare")>>})
MissingRightSquare ==
    Unclosed(ExprLeads,
             {<<T("LeftSquare")>>, <<T("LeftSquare"), Num("2"), T("Comma")>>,
              <<Id("a"), T("LeftSquare")>>,
              <<T("LeftSquare"), T("LeftSquare"), Num("2"), T("RightSquare"), T("Comma")>>},
             Contents, {<<>>, <<T("RightParen")>>})
BodyHeaders ==
    {<<T("If"), T("LeftParen"), Num("1"), T("RightParen")>>,
     <<T("If"), T("LeftParen"), Num("1"), T("RightParen"), T("LeftCurly"), T("RightCurly"),
       T("Else")>>,
     <<T("While"), T("LeftParen"), Num("1"), T("RightParen")>>,
     <<T("For"), T("LeftParen"), T("Semicolon"), T("Semicolon"), T("RightParen")>>,
     <<T("Func"), Id("f"), T("LeftParen"), T("RightParen")>>}
MissingRightCurly ==
    {Program(<<u[1] \o <<T("LeftCurly")>> \o u[2]>>) :
        u \in BodyHeaders \X {<<>>, <<T("Print"), Num("1")>>,
                              <<Id("a"), T("Equal"), Num("1")>>, <<T("Return")>>}}
MissingLeftCurly ==
    Unclosed({<<>>}, BodyHeaders, {<<>>},
             {<<>>, <<T("Print"), Num("1")>>, <<T("RightCurly")>>, <<Id("a")>>})

\* Two malformed statements, one per line, the second one starting with a
\* statement keyword: each is a source the tests expect an error for.
MalformedFirst == {SrcInvalidVarName, SrcFuncKeywordName, SrcUnclosedGrouping,
                   SrcUnclosedArray1, SrcUnclosedCall2, SrcUnclosedFor}
MalformedSecond == {SrcInvalidVarName, SrcFuncKeywordName, SrcForNoInitSemicolon,
                    SrcForNoCondSemicolon, SrcUnclosedFor, SrcUnopenedBlock,
                    SrcUnclosedBlock}
\* src1 without its Eof, then src2 moved one line down.
Pair(src1, src2) ==
    SubSeq(src1, 1, Len(src1) - 1) \o
    [k \in 1..Len(src2) |-> [src2[k] EXCEPT !.line = @ + src1[Len(src1)].line]]
TwoMalformed == {SrcSync} \cup {Pair(ps[1], ps[2]) : ps \in MalformedFirst \X MalformedSecond}

\* for (init?; cond?; inc?) body with every combination of clauses.
\* A primary followed by indexes and calls: a[1](1)(), (a[1])(1)[1], ...
PostfixOps == {"index", "call", "call_empty"}
PostfixTokens(op) ==
    CASE op = "index" -> <<T("LeftSquare"), Num("1"), T("RightSquare")>>
      [] op = "call" -> <<T("LeftParen"), Num("1"), T("RightParen")>>
      [] op = "call_empty" -> <<T("LeftParen"), T("RightParen")>>
PostfixLeads ==
    {<<Id("a")>>,
     <<T("LeftParen"), Id("a"), T("LeftSquare"), Num("1"), T("RightSquare"), T("RightParen")>>}
RECURSIVE PostfixTail(_, _)
PostfixTail(ops, k) ==
    IF k > Len(ops) THEN <<>> ELSE PostfixTokens(ops[k]) \o PostfixTail(ops, k + 1)
PostfixSource(lead, ops) == Program(<<lead \o PostfixTail(ops, 1)>>)
PostfixSources ==
    {PostfixSource(p[1], p[2]) : p \in PostfixLeads \X SeqsUpTo(PostfixOps, MaxPostfix)}

ForInits == {<<>>, <<T("Var"), Id("x"), T("Equal"), Num("5")>>,
             <<Id("x"), T("Equal"), Num("5")>>, <<Id("x")>>, <<T("Break")>>}
ForConds == {<<>>, <<Id("x"), T("Less"), Num("10")>>, <<T("True")>>}
ForIncs == {<<>>, <<Id("x"), T("Equal"), Id("x"), T("Plus"), Num("1")>>,
            <<T("Print"), Id("x")>>}
ForBodies == {<<T("LeftCurly"), T("RightCurly")>>,
              <<T("LeftCurly"), T("Var"), Id("y"), T("Equal"), Id("x"), T("RightCurly")>>,
              <<T("LeftCurly"), T("Break"), T("RightCurly"), T("Print"), Id("x")>>}
ForSource(init, cond, inc, body) ==
    Program(<< <<T("For"), T("LeftParen")>> \o init \o <<T("Semicolon")>>,
               cond \o <<T("Semicolon")>> \o inc \o <<T("RightParen")>>,
               body >>)
ForSources == {ForSource(f[1], f[2], f[3], f[4]) :
                  f \in ForInits \X ForConds \X ForIncs \X ForBodies}

\* for statements whose header lacks one delimiter: the `(`, the `;` after a
\* present initialiser in front of a present condition, the `;` after a
\* present condition, or the `)` after a present increment.
Unless(missing, name, token) == IF missing = name THEN <<>> ELSE <<token>>
ForBroken(init, cond, inc, body, missing) ==
    Program(<< <<T("For")>> \o Unless(missing, "open", T("LeftParen")) \o init
                   \o Unless(missing, "semi1", T("Semicolon")),
               cond \o Unless(missing, "semi2", T("Semicolon")) \o inc
                   \o Unless(missing, "close", T("RightParen")),
               body >>)
ForNoOpen ==
    {ForBroken(f[1], f[2], f[3], f[4], "open") :
        f \in ForInits \X ForConds \X ForIncs \X ForBodies}
ForNoInitSemi ==
    {ForBroken(f[1], f[2], f[3], f[4], "semi1") :
        f \in (ForInits \ {<<>>}) \X (ForConds \ {<<>>}) \X ForIncs \X ForBodies}
ForNoCondSemi ==
    {ForBroken(f[1], f[2], f[3], f[4], "semi2") :
        f \in ForInits \X (ForConds \ {<<>>}) \X ForIncs \X ForBodies}
ForNoClose ==
    {ForBroken(f[1], f[2], f[3], f[4], "close") :
        f \in ForInits \X ForConds \X (ForIncs \ {<<>>}) \X ForBodies}

----------------------------------------------------------------------------
(* error.rs: report_errors and print_report.  A line written to stdout is   *)
(* the sequence of the pieces println! puts together; a backquote of the    *)
(* source's text is written ' here.                                         *)

\* The text print_report puts behind "Line {}" for a kind without operands.
LineMessage ==
    "ExpectedExpression" :> ": expected expression." @@
    "ExpectedFunctionName" :>
        ": expected function name. Make sure it is not a keyword." @@
    "ExpectedParameterName" :> ": expected parameter name in function declaration." @@
    "ExpectedVariableName" :>
        ": expected variable name. Make sure it is not a keyword." @@
    "ExpectedSemicolonAfterInit" :>
        ": expected ';' after initialising statement in 'for' loop." @@
    "ExpectedSemicolonAfterCondition" :> ": expected ';' after condition in 'for' loop." @@
    "ExpectedParenAfterIncrement" :>
        ": expected ')' after increment statement in 'for' loop." @@
    "ExpectedColonAfterKey" :> ": expected colon after dictionary key." @@
    "NotIndexable" :> ": the value is not indexable." @@
    "InsertNonStringIntoString" :> ": attempted to insert a non-string into a string." @@
    "InvalidAssignmentTarget" :>
        ": invalid assignment target. Make sure you are not assigning to a literal." @@
    "DivideByZero" :> ": divisor is 0." @@
    "IfConditionNotBoolean" :>
        ": the 'if' condition did not evaluate to a Boolean value." @@
    "LoopConditionNotBoolean" :>
        ": the condition of the loop did not evaluate to a Boolean value." @@
    "CannotCallName" :> ": cannot call name as a function." @@
    "CannotConvertToNumber" :> ": could not convert to a number." @@
    "CannotHashFunction" :>
        ": cannot hash function (functions cannot be used as keys in dictionary entries)." @@
    "CannotHashDictionary" :>
        ": cannot hash dictionary (dictionaries cannot be used as keys in dictionary entries)." @@
    "ThrownBreak" :> ": 'break' has to be used within a loop." @@
    "ThrownReturn" :> ": 'return' has to be used within a function."

print_report(error) ==
    CASE error.kind = "UnexpectedCharacter" ->
             <<"Line ", error.line, ": unexpected character '", error.character, "'.">>
      [] error.kind = "UnterminatedString" ->
             <<"A string was never closed by the end of the program.">>
      [] error.kind = "ExpectedCharacter" ->
             <<"Line ", error.line, ": expected character '", error.expected, "'">>
      [] error.kind = "NameError" ->
             <<"Line ", error.line, ": '", error.name, "' is not defined.">>
      [] error.kind = "OutOfBoundsIndex" ->
             <<"Line ", error.line, ": index '", error.index, "' is out of bounds.">>
      [] error.kind = "ExpectedType" ->
             <<"Line ", error.line, ": expected type ", error.expected,
               "; instead got type ", error.got, ".">>
      [] error.kind = "NonNaturalIndex" ->
             <<"Line ", error.line, ": index evaluated to ", error.got,
               ", which is not a positive integer.">>
      [] error.kind = "NonNumberIndex" ->
             <<"Line ", error.line, ": index evaluated to a ", error.got,
               ", which is not a positive integer.">>
      [] error.kind = "BinaryTypeError" ->
             <<"Line ", error.line, ": this operation requires both sides' types to be ",
               error.expected, ". Instead, got ", error.got_left, " and ",
               error.got_right, " respectively.">>
      [] error.kind = "ArgParamNumberMismatch" ->
             <<"Line ", error.line, ": attempted to call function with ", error.arg_number,
               " argument(s), but function accepts ", error.param_number, ".">>
      [] error.kind = "KeyError" ->
             <<"Line ", error.line, ": key '", error.key,
               "' does not exist in the dictionary.">>
      [] OTHER -> <<"Line ", error.line, LineMessage[error.kind]>>

\* The banner, then print_report of every error in order.
report_errors(errs) ==
    << <<"An error has occurred.">> >> \o [k \in 1..Len(errs) |-> print_report(errs[k])]

\* main is not running.
MainIdle ==
    /\ main_pc = "none"
    /\ args = 0
    /\ interpreters = 0
    /\ lines_read = 0
    /\ runs = <<>>

----------------------------------------------------------------------------
(* Parser::parse and Parser::sync. *)

SyncTypes == {"Eof", "For", "Func", "If", "Print", "Return", "Var", "While"}

\* sync() that gives up on the rest of the source after an error.
sync_to_eof(s) ==
    [i |-> Len(tokens) - 1, l |-> tokens[Len(tokens)].line, panic |-> FALSE]

\* sync() that also takes `break`, `else` and `}` for the start of a statement.
sync_any_keyword(s) ==
    LET stops == SyncTypes \cup {"Break", "Else", "RightCurly"}
        rest == {j \in s.i..(Len(tokens) - 1) : TokenAt(j).type_ \in stops}
        j == CHOOSE x \in rest : \A y \in rest : x <= y
    IN  [i |-> j, l |-> IF j = s.i THEN s.l ELSE TokenAt(j).line, panic |-> FALSE]

\* sync() that leaves the cursor where statement() failed.
sync_stays(s) == [i |-> s.i, l |-> s.l, panic |-> FALSE]

\* while !check_next(SyncTypes) { current_index += 1; current_line =
\* tokens[current_index].line }: the indexing panics out of range.
RECURSIVE sync(_)
\* sync() that does not stop at Eof.
sync_no_eof(s) ==
    IF check_next(s, SyncTypes \ {"Eof"}) THEN [i |-> s.i, l |-> s.l, panic |-> FALSE]
    ELSE IF ~InRange(s.i + 1) THEN [i |-> s.i + 1, l |-> s.l, panic |-> TRUE]
    ELSE sync([i |-> s.i + 1, l |-> TokenAt(s.i + 1).line])

sync(s) ==
    IF check_next(s, SyncTypes) THEN [i |-> s.i, l |-> s.l, panic |-> FALSE]
    ELSE IF ~InRange(s.i + 1) THEN [i |-> s.i + 1, l |-> s.l, panic |-> TRUE]
    ELSE sync([i |-> s.i + 1, l |-> TokenAt(s.i + 1).line])

NoResult == [returned |-> FALSE]
self == [i |-> current_index, l |-> current_line]

Init ==
    /\ \/ tokens \in Enumerated
       \/ tokens \in EnumeratedLines
       \/ tokens \in Chains
       \/ tokens \in ForSources
       \/ tokens \in TwoMalformed
       \/ tokens \in ReturnSources
       \/ tokens \in UnarySources
       \/ tokens \in PostfixSources
       \/ tokens \in ForNoOpen \cup ForNoInitSemi \cup ForNoCondSemi \cup ForNoClose
       \/ tokens \in MissingRightParen \cup MissingRightSquare
       \/ tokens \in MissingRightCurly \cup MissingLeftCurly
       \/ tokens \in FuncSources
       \/ tokens \in Damaged
       \/ tokens \in TestSources
    /\ current_index = 0
    /\ current_line = 1
    /\ statements = <<>>
    /\ errors = <<>>
    /\ pc = "loop"
    /\ result = NoResult
    /\ calls = <<>>
    /\ run_pc = "parse"
    /\ tokenize_result = "Ok"
    /\ interpreted = <<>>
    /\ reported = <<>>
    /\ MainIdle

\* One iteration of parse's loop in which statement() returned Ok.
ParseStatementOk ==
    /\ pc = "loop"
    /\ ~check_next(self, {"Eof"})
    /\ With(statement(self), LAMBDA r:
           /\ r.ok
           /\ statements' = Append(statements, r.v)
           /\ current_index' = r.i
           /\ current_line' = r.l
           /\ calls' = Append(calls, [start |-> current_index, line |-> current_line,
                                    ok |-> TRUE, v |-> r.v, stop |-> r.i,
                                    resume |-> r.i]))
    /\ UNCHANGED <<tokens, errors, pc, result, run_vars, reported, main_vars>>

\* An iteration whose statement() failed, with the error dropped.
ParseStatementErrSwallowed ==
    /\ pc = "loop"
    /\ ~check_next(self, {"Eof"})
    /\ With(statement(self), LAMBDA r:
           /\ ~r.ok
           /\ errors' = errors
           /\ With(sync(r), LAMBDA y:
                  /\ current_index' = y.i
                  /\ current_line' = y.l
                  /\ pc' = IF y.panic THEN "panic" ELSE "loop"
                  /\ calls' = Append(calls, [start |-> current_index, line |-> current_line,
                                           ok |-> FALSE, v |-> r.v, stop |-> r.i,
                                           resume |-> y.i])))
    /\ UNCHANGED <<tokens, statements, result, run_vars, reported, main_vars>>

\* One iteration in which statement() returned Err: push the error, sync().
ParseStatementErr ==
    /\ pc = "loop"
    /\ ~check_next(self, {"Eof"})
    /\ With(statement(self), LAMBDA r:
           /\ ~r.ok
           /\ errors' = Append(errors, r.v)
           /\ With(sync(r), LAMBDA y:
                  /\ current_index' = y.i
                  /\ current_line' = y.l
                  /\ pc' = IF y.panic THEN "panic" ELSE "loop"
                  /\ calls' = Append(calls, [start |-> current_index, line |-> current_line,
                                           ok |-> FALSE, v |-> r.v, stop |-> r.i,
                                           resume |-> y.i])))
    /\ UNCHANGED <<tokens, statements, result, run_vars, reported, main_vars>>

\* The loop has ended and errors is empty: Ok(statements).
ParseReturnOk ==
    /\ pc = "loop"
    /\ check_next(self, {"Eof"})
    /\ errors = <<>>
    /\ result' = [returned |-> TRUE, ok |-> TRUE, v |-> statements]
    /\ pc' = "done"
    /\ UNCHANGED <<tokens, current_index, current_line, statements, errors, calls, run_vars,
                   reported, main_vars>>

\* A return that reports the first error only.
ParseReturnFirstError ==
    /\ pc = "loop"
    /\ check_next(self, {"Eof"})
    /\ errors # <<>>
    /\ result' = [returned |-> TRUE, ok |-> FALSE, v |-> <<errors[1]>>]
    /\ reported' = reported \o report_errors(errors)
    /\ pc' = "done"
    /\ UNCHANGED <<tokens, current_index, current_line, statements, errors, calls, run_vars,
                   main_vars>>

\* The loop has ended and errors is not empty: report, then Err(errors).
ParseReturnErr ==
    /\ pc = "loop"
    /\ check_next(self, {"Eof"})
    /\ errors # <<>>
    /\ result' = [returned |-> TRUE, ok |-> FALSE, v |-> errors]
    /\ reported' = reported \o report_errors(errors)
    /\ pc' = "done"
    /\ UNCHANGED <<tokens, current_index, current_line, statements, errors, calls, run_vars,
                   main_vars>>

Next == ParseStatementOk \/ ParseStatementErr \/ ParseReturnOk \/ ParseReturnErr

Spec == Init /\ [][Next]_vars

-----------------------------------------------------------------------------
(* main.rs: run(source, interpreter).  The tokenizer and the interpreter   *)
(* are called, not modelled: tokenize() returns Ok(tokens) or Err, and     *)
(* interpret(ast) is recorded in `interpreted` and may or may not return.  *)

\* run is entered; `tokens` is what tokenize() returns if it returns Ok.
RunInit ==
    /\ tokens \in EnumeratedLines \cup TwoMalformed \cup ReturnSources \cup TestSources
    /\ current_index = 0
    /\ current_line = 1
    /\ statements = <<>>
    /\ errors = <<>>
    /\ pc = "loop"
    /\ result = NoResult
    /\ calls = <<>>
    /\ run_pc = "tokenize"
    /\ tokenize_result = "none"
    /\ interpreted = <<>>
    /\ reported = <<>>
    /\ MainIdle

\* What a step of run outside parser.parse() leaves alone.
ParserUnchanged ==
    UNCHANGED <<tokens, current_index, current_line, statements, errors, pc, result, calls,
                reported, main_vars>>

\* let Ok(tokens) = tokenizer.tokenize(): Parser::new(tokens) follows.
TokenizeOk ==
    /\ run_pc = "tokenize"
    /\ tokenize_result' = "Ok"
    /\ run_pc' = "parse"
    /\ UNCHANGED interpreted
    /\ ParserUnchanged

\* tokenize() returned Err: else { return; }
TokenizeErr ==
    /\ run_pc = "tokenize"
    /\ tokenize_result' = "Err"
    /\ run_pc' = "returned"
    /\ UNCHANGED interpreted
    /\ ParserUnchanged

\* parser.parse() is running.
Parse ==
    /\ run_pc = "parse"
    /\ Next

\* run that hands the statements collected so far to the interpreter when
\* parse returns Err.
ParseErrInterpretsCollected ==
    /\ run_pc = "parse"
    /\ pc = "done"
    /\ ~result.ok
    /\ interpreted' = Append(interpreted, statements)
    /\ run_pc' = "interpret"
    /\ UNCHANGED tokenize_result
    /\ ParserUnchanged

\* parse() returned Err: else { return; }
ParseErr ==
    /\ run_pc = "parse"
    /\ pc = "done"
    /\ ~result.ok
    /\ run_pc' = "returned"
    /\ UNCHANGED <<tokenize_result, interpreted>>
    /\ ParserUnchanged

\* let Ok(ast) = parser.parse(); interpreter.interpret(ast) is called.
Interpret ==
    /\ run_pc = "parse"
    /\ pc = "done"
    /\ result.ok
    /\ interpreted' = Append(interpreted, result.v)
    /\ run_pc' = "interpret"
    /\ UNCHANGED tokenize_result
    /\ ParserUnchanged

\* interpret returns and run ends.
InterpretReturns ==
    /\ run_pc = "interpret"
    /\ run_pc' = "returned"
    /\ UNCHANGED <<tokenize_result, interpreted>>
    /\ ParserUnchanged

RunNext == TokenizeOk \/ TokenizeErr \/ Parse \/ ParseErr \/ Interpret \/ InterpretReturns

\* A step of parse can be taken exactly while its loop runs: the loop ends
\* at Eof or calls statement(), which returns Ok or Err.
ParseRuns == run_pc = "parse" /\ pc = "loop"

\* run is sequential code: every step of run itself is taken when it can be
\* (for Parse, weak fairness written out with ParseRuns as its enabling
\* condition); interpret, which runs the user's program, need not return.
RunSpec ==
    /\ RunInit
    /\ [][RunNext]_vars
    /\ WF_vars(TokenizeOk \/ TokenizeErr \/ ParseErr \/ Interpret)
    /\ ([]<>(~ParseRuns) \/ []<><<Parse>>_vars)

----------------------------------------------------------------------------
(* main.rs: main, run_file and run_prompt.  Reading the file, flushing the *)
(* prompt and reading a line succeed or fail (.expect panics).              *)

\* What the tokenizer makes of a line typed at the prompt, when it returns
\* Ok: print 1, var x = 1, print, x =, and the empty line.
PromptSources ==
    {Program(<< <<T("Print"), Num("1")>> >>),
     Program(<< <<T("Var"), Id("x"), T("Equal"), Num("1")>> >>),
     Program(<< <<T("Print")>> >>),
     Program(<< <<Id("x"), T("Equal")>> >>),
     Program(<<>>)}

\* The process starts with the program name and 0, 1 or 2 arguments.
MainInit ==
    /\ tokens = Program(<<>>)
    /\ current_index = 0
    /\ current_line = 1
    /\ statements = <<>>
    /\ errors = <<>>
    /\ pc = "loop"
    /\ result = NoResult
    /\ calls = <<>>
    /\ run_pc = "none"
    /\ tokenize_result = "none"
    /\ interpreted = <<>>
    /\ reported = <<>>
    /\ main_pc = "main"
    /\ args \in 1..3
    /\ interpreters = 0
    /\ lines_read = 0
    /\ runs = <<>>

\* What a step of main outside run leaves alone.
RunUnchanged ==
    UNCHANGED <<tokens, current_index, current_line, statements, errors, pc, result, calls,
                run_vars, reported>>

\* if args.len() > 2 { eprintln!(usage); process::exit(64) }
MainUsage ==
    /\ main_pc = "main"
    /\ args > 2
    /\ main_pc' = "exit64"
    /\ UNCHANGED <<args, interpreters, lines_read, runs>>
    /\ RunUnchanged

\* else if args.len() == 2 { run_file(&args[1]) }
MainRunFile ==
    /\ main_pc = "main"
    /\ args = 2
    /\ main_pc' = "run_file"
    /\ UNCHANGED <<args, interpreters, lines_read, runs>>
    /\ RunUnchanged

\* run_file: let source = fs::read_to_string(file_path).expect(..); the
\* function ends there and main returns, or the read fails and expect panics.
RunFileRead ==
    /\ main_pc = "run_file"
    /\ main_pc' \in {"returned", "panicked"}
    /\ UNCHANGED <<args, interpreters, lines_read, runs>>
    /\ RunUnchanged

\* else { run_prompt() }: let mut interpreter = Interpreter::new()
MainRunPrompt ==
    /\ main_pc = "main"
    /\ args < 2
    /\ interpreters' = interpreters + 1
    /\ main_pc' = "prompt"
    /\ UNCHANGED <<args, lines_read, runs>>
    /\ RunUnchanged

\* One pass of the loop up to the call: the prompt is written and flushed, a
\* line is read, and run(&line, &mut interpreter) is entered.
PromptReadLine ==
    /\ main_pc = "prompt"
    /\ lines_read < MaxLines
    /\ lines_read' = lines_read + 1
    /\ runs' = Append(runs, [line |-> lines_read + 1, interpreter |-> interpreters])
    /\ main_pc' = "run"
    /\ tokens' \in PromptSources
    /\ current_index' = 0
    /\ current_line' = 1
    /\ statements' = <<>>
    /\ errors' = <<>>
    /\ pc' = "loop"
    /\ result' = NoResult
    /\ calls' = <<>>
    /\ run_pc' = "tokenize"
    /\ tokenize_result' = "none"
    /\ UNCHANGED <<args, interpreters, interpreted, reported>>

\* flush() or read_line() returns Err and expect panics.
PromptIoPanics ==
    /\ main_pc = "prompt"
    /\ main_pc' = "panicked"
    /\ UNCHANGED <<args, interpreters, lines_read, runs>>
    /\ RunUnchanged

\* run is running for the line read.
PromptRun ==
    /\ main_pc = "run"
    /\ RunNext

\* A loop that starts over with a new interpreter after a line that failed.
PromptRunReturnsResets ==
    /\ main_pc = "run"
    /\ run_pc = "returned"
    /\ main_pc' = "prompt"
    /\ interpreters' =
           IF tokenize_result = "Err" \/ errors # <<>> THEN interpreters + 1 ELSE interpreters
    /\ UNCHANGED <<args, lines_read, runs>>
    /\ RunUnchanged

\* let _ = run(..): run has returned and the loop starts over.
PromptRunReturns ==
    /\ main_pc = "run"
    /\ run_pc = "returned"
    /\ main_pc' = "prompt"
    /\ UNCHANGED <<args, interpreters, lines_read, runs>>
    /\ RunUnchanged

MainNext ==
    \/ MainUsage
    \/ MainRunFile
    \/ RunFileRead
    \/ MainRunPrompt
    \/ PromptReadLine
    \/ PromptIoPanics
    \/ PromptRun
    \/ PromptRunReturns

\* main is sequential code: its own steps and those of run are taken when
\* they can be (for Parse, weak fairness written out with ParseRuns as its
\* enabling condition).  A line need not arrive and interpret need not return.
MainSpec ==
    /\ MainInit
    /\ [][MainNext]_vars
    /\ WF_vars(MainUsage \/ MainRunFile \/ RunFileRead \/ MainRunPrompt \/ PromptRunReturns)
    /\ WF_vars(main_pc = "run" /\ (TokenizeOk \/ TokenizeErr \/ ParseErr \/ Interpret))
    /\ ([]<>(~(main_pc = "run" /\ ParseRuns)) \/ []<><<main_pc = "run" /\ Parse>>_vars)

----------------------------------------------------------------------------
(* error.rs: report_errors called on its own, with errors of every kind of  *)
(* ErrorType (the tokenizer and the interpreter report theirs with it too). *)

ErrorLines == {1, 2}
\* One error of every variant of ErrorType on line `line`.
ErrorsOnLine(line) ==
    {[kind |-> "UnexpectedCharacter", character |-> "@", line |-> line],
     [kind |-> "UnterminatedString"],
     ExpectedCharacter(")", line),
     [kind |-> "NameError", name |-> "x", line |-> line],
     [kind |-> "OutOfBoundsIndex", index |-> 3, line |-> line],
     [kind |-> "ExpectedType", expected |-> "Number", got |-> "String", line |-> line],
     [kind |-> "NonNaturalIndex", got |-> "-1", line |-> line],
     [kind |-> "NonNumberIndex", got |-> "String", line |-> line],
     [kind |-> "BinaryTypeError", expected |-> "Number", got_left |-> "Number",
      got_right |-> "String", line |-> line],
     [kind |-> "ArgParamNumberMismatch", arg_number |-> 1, param_number |-> 2,
      line |-> line],
     [kind |-> "KeyError", key |-> "k", line |-> line],
     [kind |-> "ThrownReturn", value |-> "1", line |-> line]}
    \cup {ErrorAt(kind, line) : kind \in DOMAIN LineMessage \ {"ThrownReturn"}}
ErrorLists == SeqsUpTo(UNION {ErrorsOnLine(line) : line \in ErrorLines}, MaxErrors)

\* report_errors is about to be called with `errors`.
ReportInit ==
    /\ errors \in ErrorLists
    /\ pc = "report"
    /\ tokens = Program(<<>>)
    /\ current_index = 0
    /\ current_line = 1
    /\ statements = <<>>
    /\ result = NoResult
    /\ calls = <<>>
    /\ run_pc = "none"
    /\ tokenize_result = "none"
    /\ interpreted = <<>>
    /\ reported = <<>>
    /\ MainIdle

\* report_errors(&errors) runs.
Report ==
    /\ pc = "report"
    /\ reported' = reported \o report_errors(errors)
    /\ pc' = "reported"
    /\ UNCHANGED <<tokens, current_index, current_line, statements, errors, result, calls,
                   run_vars, main_vars>>

ReportSpec == ReportInit /\ [][Report]_vars

----------------------------------------------------------------------------
(* Properties of parse: results, error recovery, the cursor. *)

\* The statement() calls parse made that failed / that succeeded, in order.
FailedCalls == SelectSeq(calls, LAMBDA c : ~c.ok)
OkCalls == SelectSeq(calls, LAMBDA c : c.ok)
Values(cs) == [k \in 1..Len(cs) |-> cs[k].v]
EofIndex == Len(tokens) - 1
\* The first index at or after `from` whose token is one sync stops at.
FirstSyncPoint(from) ==
    CHOOSE j \in from..EofIndex :
        /\ TokenAt(j).type_ \in SyncTypes
        /\ \A k \in from..(j - 1) : TokenAt(k).type_ \notin SyncTypes

\* C1: parse returns Ok(statements), in source order, exactly when every
\* statement() call succeeded; otherwise it returns Err with the errors of all
\* the failed calls in the order they were met, and that list is never empty.
C1_ResultIsAllStatementsOrAllErrors ==
    pc = "done" =>
        /\ result.returned
        /\ result.ok <=> (FailedCalls = <<>>)
        /\ result.ok => result.v = Values(OkCalls) /\ Len(OkCalls) = Len(calls)
        /\ ~result.ok => result.v # <<>> /\ result.v = Values(FailedCalls)

C1_Witness ==
    /\ pc = "done"
    /\ ~result.ok
    /\ Len(result.v) >= 2
    /\ OkCalls # <<>>

\* C2: parsing goes on after the first error.  When the first statement is
\* malformed and the first statement-start keyword after the point of failure
\* begins a second malformed statement, both errors are reported, in order;
\* the source of the sync test gives ExpectedExpression on line 1 and then
\* ExpectedParenAfterIncrement on line 2.
C2_SecondErrorReported ==
    pc = "done" /\ calls # <<>> /\ ~calls[1].ok =>
        LET p == FirstSyncPoint(calls[1].stop)
            second == statement([i |-> p, l |-> 1])
        IN  /\ TokenAt(p).type_ # "Eof" /\ ~second.ok =>
                /\ ~result.ok
                /\ Len(result.v) >= 2
                /\ result.v[1] = calls[1].v
                /\ result.v[2] = second.v
            /\ tokens = SrcSync =>
                /\ result.v[1] = ErrorAt("ExpectedExpression", 1)
                /\ result.v[2] = ErrorAt("ExpectedParenAfterIncrement", 2)

C2_Witness ==
    /\ pc = "done"
    /\ tokens = SrcSync
    /\ ~result.ok
    /\ Len(result.v) >= 2

\* C3 as stated: a source made of two malformed statements, the second one
\* starting with a statement keyword, gives exactly two errors.
C3_ExactlyTwoErrors ==
    pc = "done" /\ tokens \in TwoMalformed => ~result.ok /\ Len(result.v) = 2

\* C4: after a failed statement, sync leaves the cursor on the first token at
\* or after the point of failure that is Eof, for, func, if, print, return,
\* var or while, without consuming it; break, else and } do not stop it.
C4_SyncStopsAtStatementStart ==
    \A k \in 1..Len(calls) :
        ~calls[k].ok =>
            /\ calls[k].resume = FirstSyncPoint(calls[k].stop)
            /\ TokenAt(calls[k].resume).type_ \in
                   {"Eof", "For", "Func", "If", "Print", "Return", "Var", "While"}
            /\ k < Len(calls) => calls[k + 1].start = calls[k].resume
            /\ k = Len(calls) => current_index = calls[k].resume
            /\ pc # "panic"

C4_Witness ==
    \E k \in 1..Len(calls) :
        /\ ~calls[k].ok
        /\ TokenAt(calls[k].resume).type_ # "Eof"
        /\ \E j \in calls[k].stop..(calls[k].resume - 1) :
               TokenAt(j).type_ \in {"Break", "RightCurly"}

\* C5: when parse returns, the cursor is on the Eof token and every token
\* before it was either consumed by a statement() call or skipped by sync;
\* when the result is Ok, sync skipped nothing.
C5_CursorAtEofOnReturn ==
    pc = "done" =>
        /\ current_index = EofIndex
        /\ TokenAt(current_index).type_ = "Eof"
        /\ calls # <<>> => calls[1].start = 0 /\ calls[Len(calls)].resume = EofIndex
        /\ \A k \in 1..Len(calls) :
               /\ calls[k].start < calls[k].stop \/ calls[k].stop < calls[k].resume
               /\ calls[k].stop <= calls[k].resume
               /\ k < Len(calls) => calls[k + 1].start = calls[k].resume
        /\ result.ok => \A k \in 1..Len(calls) : calls[k].resume = calls[k].stop

C5_Witness ==
    /\ pc = "done"
    /\ result.ok
    /\ Len(calls) >= 2
    /\ current_index = EofIndex

----------------------------------------------------------------------------
(* Properties of the expression grammar. *)

\* The operand and sub-statement nodes of a node, left to right.
KeysAndValues(elements) ==
    [k \in 1..(2 * Len(elements)) |->
        IF k % 2 = 1 THEN elements[(k + 1) \div 2].key ELSE elements[k \div 2].value]
Children(n) ==
    CASE n.node \in {"Literal", "Variable", "Break"} -> <<>>
      [] n.node \in {"Grouping", "Expression", "Print"} -> <<n.expression>>
      [] n.node = "Unary" -> <<n.right>>
      [] n.node = "Binary" -> <<n.left, n.right>>
      [] n.node = "Assignment" -> <<n.target, n.value>>
      [] n.node = "Call" -> <<n.callee>> \o n.arguments
      [] n.node = "Element" -> <<n.array, n.index>>
      [] n.node = "Array" -> n.elements
      [] n.node = "Dictionary" -> KeysAndValues(n.elements)
      [] n.node = "Return" -> n.expression
      [] n.node = "VarDecl" -> <<n.value>>
      [] n.node = "Block" -> n.body
      [] n.node = "While" -> <<n.condition, n.body>>
      [] n.node = "If" -> <<n.condition, n.then_body>> \o n.else_body
      [] n.node = "Function" -> <<n.body>>

\* Every node of the trees in todo.
RECURSIVE Collect(_, _)
Collect(todo, acc) ==
    IF todo = <<>> THEN acc
    ELSE Collect(Tail(todo) \o Children(Head(todo)), Append(acc, Head(todo)))
\* Every node parse has built in a statement() call that succeeded.
ParsedNodes == Collect(Values(OkCalls), <<>>)

\* The grammar level that builds a node: 1 assignment ... 9 postfix, 10 primary.
OperatorLevel ==
    [Or |-> 2, And |-> 3, EqualEqual |-> 4, BangEqual |-> 4, Greater |-> 5,
     Less |-> 5, GreaterEqual |-> 5, LessEqual |-> 5, Plus |-> 6, Minus |-> 6,
     Star |-> 7, Slash |-> 7, Percent |-> 7]
Level(e) ==
    CASE e.node = "Assignment" -> 1
      [] e.node = "Binary" -> OperatorLevel[e.operator.type_]
      [] e.node = "Unary" -> 8
      [] e.node \in {"Element", "Call"} -> 9
      [] OTHER -> 10

\* The tokens (kind and text) an expression was parsed from.
Tok(type_) == <<type_, FixedLexeme[type_]>>
RECURSIVE Unparse(_), UnparseList(_, _), UnparseKeyValues(_, _)
Unparse(e) ==
    CASE e.node = "Literal" ->
             (CASE e.value[1] = "Bool" ->
                       <<IF e.value[2] = "true" THEN Tok("True") ELSE Tok("False")>>
                [] e.value[1] = "Null" -> <<Tok("Null")>>
                [] OTHER -> <<e.value>>)
      [] e.node = "Variable" -> << <<"Identifier", e.name>> >>
      [] e.node = "Grouping" ->
             <<Tok("LeftParen")>> \o Unparse(e.expression) \o <<Tok("RightParen")>>
      [] e.node = "Unary" ->
             << <<e.operator.type_, e.operator.lexeme>> >> \o Unparse(e.right)
      [] e.node = "Binary" ->
             Unparse(e.left) \o << <<e.operator.type_, e.operator.lexeme>> >>
                 \o Unparse(e.right)
      [] e.node = "Assignment" ->
             Unparse(e.target) \o <<Tok("Equal")>> \o Unparse(e.value)
      [] e.node = "Call" ->
             Unparse(e.callee) \o <<Tok("LeftParen")>> \o UnparseList(e.arguments, 1)
                 \o <<Tok("RightParen")>>
      [] e.node = "Element" ->
             Unparse(e.array) \o <<Tok("LeftSquare")>> \o Unparse(e.index)
                 \o <<Tok("RightSquare")>>
      [] e.node = "Array" ->
             <<Tok("LeftSquare")>> \o UnparseList(e.elements, 1) \o <<Tok("RightSquare")>>
      [] e.node = "Dictionary" ->
             <<Tok("LeftCurly")>> \o UnparseKeyValues(e.elements, 1) \o <<Tok("RightCurly")>>
UnparseList(es, k) ==
    IF k > Len(es) THEN <<>>
    ELSE (IF k > 1 THEN <<Tok("Comma")>> ELSE <<>>) \o Unparse(es[k])
             \o UnparseList(es, k + 1)
UnparseKeyValues(es, k) ==
    IF k > Len(es) THEN <<>>
    ELSE (IF k > 1 THEN <<Tok("Comma")>> ELSE <<>>) \o Unparse(es[k].key)
             \o <<Tok("Colon")>> \o Unparse(es[k].value) \o UnparseKeyValues(es, k + 1)
\* The tokens (kind and text) at indices from .. to - 1.
Consumed(from, to) ==
    [k \in 1..(to - from) |-> <<TokenAt(from + k - 1).type_, TokenAt(from + k - 1).lexeme>>]
\* The statement() calls that parsed an expression statement.
ExpressionCalls == SelectSeq(calls, LAMBDA c : c.ok /\ c.v.node = "Expression")

\* Nodes of the expected trees (every token of these sources is on line 1).
Op(type_) == Token(type_, FixedLexeme[type_], NullLiteral, 1)
N(n) == Literal(1, <<"Number", n>>)
V(name) == Variable(1, name)
B(value) == Literal(1, <<"Bool", value>>)

\* C6: precedence, loosest to tightest, is assignment, or, and, equality,
\* comparison, + -, * / %, unary, postfix: no operand of an operator node is
\* built by a looser level, the tree read left to right is the source again
\* (so operands are adjacent to their operator), and a parenthesised group is
\* a Grouping node whose content may be of any level.  5*1+2*(3-4/a) is
\* (5*1) + (2 * Grouping(3 - (4/a))); in `true and true or false and true or
\* false` each `and` is an operand of an `or`.
C6_PrecedenceLevels ==
    /\ \A k \in 1..Len(ParsedNodes) :
           LET n == ParsedNodes[k] IN
           /\ n.node = "Binary" =>
                  /\ n.operator.type_ \in DOMAIN OperatorLevel
                  /\ Level(n.left) >= Level(n)
                  /\ Level(n.right) >= Level(n)
           /\ n.node = "Unary" =>
                  n.operator.type_ \in {"Bang", "Minus"} /\ Level(n.right) >= 8
           /\ n.node = "Call" => Level(n.callee) >= 9
           /\ n.node = "Element" => Level(n.array) >= 9
    /\ \A k \in 1..Len(ExpressionCalls) :
           LET c == ExpressionCalls[k] IN
           Unparse(c.v.expression) = Consumed(c.start, c.stop)
    /\ pc = "done" /\ tokens = SrcBidmas =>
           result.v = <<ExpressionStmt(1,
               Binary(1, Binary(1, N("5"), Op("Star"), N("1")), Op("Plus"),
                   Binary(1, N("2"), Op("Star"),
                       Grouping(1, Binary(1, N("3"), Op("Minus"),
                           Binary(1, N("4"), Op("Slash"), V("a")))))))>>
    /\ pc = "done" /\ tokens = SrcLogic =>
           result.v = <<ExpressionStmt(1,
               Binary(1,
                   Binary(1, Binary(1, B("true"), Op("And"), B("true")), Op("Or"),
                       Binary(1, B("false"), Op("And"), B("true"))),
                   Op("Or"), B("false")))>>

\* A tighter operator under a looser one, and a group holding a looser one.
C6_Witness ==
    \E j, k \in 1..Len(ParsedNodes) :
        /\ ParsedNodes[j].node = "Binary"
        /\ ParsedNodes[j].left.node = "Binary"
        /\ Level(ParsedNodes[j].left) > Level(ParsedNodes[j])
        /\ ParsedNodes[k].node = "Binary"
        /\ ParsedNodes[k].right.node = "Grouping"
        /\ Level(ParsedNodes[k].right.expression) < Level(ParsedNodes[k])

\* C7: binary operators of one level associate to the left.  The right operand
\* of a Binary node is never built by the node's own level, so x op1 y op2 z
\* is Binary(Binary(x, op1, y), op2, z), and the operator of a Binary node is
\* the token between its operands.  1 < 2 == 3 > 4 <= 5 >= 6 != 7 is
\* ((1<2) == (((3>4) <= 5) >= 6)) != 7.
C7_LeftAssociative ==
    /\ \A k \in 1..Len(ParsedNodes) :
           LET n == ParsedNodes[k] IN
           n.node = "Binary" => Level(n.right) > Level(n)
    /\ \A k \in 1..Len(ExpressionCalls) :
           LET c == ExpressionCalls[k]
               e == c.v.expression
           IN  e.node = "Binary" =>
                   LET at == c.start + Len(Unparse(e.left))
                   IN  /\ at < c.stop
                       /\ e.operator = TokenAt(at)
                       /\ Unparse(e.left) = Consumed(c.start, at)
                       /\ Unparse(e.right) = Consumed(at + 1, c.stop)
    /\ pc = "done" /\ tokens = SrcComparison =>
           result.v = <<ExpressionStmt(1,
               Binary(1,
                   Binary(1, Binary(1, N("1"), Op("Less"), N("2")), Op("EqualEqual"),
                       Binary(1,
                           Binary(1, Binary(1, N("3"), Op("Greater"), N("4")),
                               Op("LessEqual"), N("5")),
                           Op("GreaterEqual"), N("6"))),
                   Op("BangEqual"), N("7")))>>

\* x op1 y op2 z with two different operators of one level.
C7_Witness ==
    \E k \in 1..Len(ParsedNodes) :
        /\ ParsedNodes[k].node = "Binary"
        /\ ParsedNodes[k].left.node = "Binary"
        /\ Level(ParsedNodes[k].left) = Level(ParsedNodes[k])
        /\ ParsedNodes[k].left.operator.type_ # ParsedNodes[k].operator.type_

\* C8: assignment associates to the right.  The target of an Assignment node
\* is built at the or level or tighter, never an Assignment node itself;
\* a = b = 5 is Assignment(a, Assignment(b, 5)).
C8_AssignmentRightAssociative ==
    /\ \A k \in 1..Len(ParsedNodes) :
           LET n == ParsedNodes[k] IN
           n.node = "Assignment" => n.target.node # "Assignment" /\ Level(n.target) >= 2
    /\ pc = "done" /\ tokens = SrcAssignmentChain =>
           result.v = <<ExpressionStmt(1,
               AssignmentExpr(1, V("a"), AssignmentExpr(1, V("b"), N("5"))))>>

C8_Witness ==
    \E k \in 1..Len(ParsedNodes) :
        /\ ParsedNodes[k].node = "Assignment"
        /\ ParsedNodes[k].value.node = "Assignment"

\* C9: the parser does not check assignment targets.  Whenever a statement
\* starts with an or-level expression followed by `=` and a right-hand side
\* that parses, the statement is an Assignment of that expression, whatever
\* it is; no error is ever InvalidAssignmentTarget.
C9_TargetNotChecked ==
    /\ \A k \in 1..Len(errors) : errors[k].kind # "InvalidAssignmentTarget"
    /\ \A k \in 1..Len(calls) :
           LET c == calls[k]
               target == or([i |-> c.start, l |-> c.line])
               value == assignment([i |-> target.i + 1, l |-> TokenAt(target.i).line])
           IN  /\ TokenAt(c.start).type_ \notin
                      {"Break", "For", "Func", "If", "Print", "Return", "Var", "While"}
               /\ target.ok
               /\ check_next(target, {"Equal"})
               /\ value.ok
               => /\ c.ok
                  /\ c.v.node = "Expression"
                  /\ c.v.expression.node = "Assignment"
                  /\ c.v.expression.target = target.v
                  /\ c.v.expression.value = value.v

\* An assignment to a binary expression whose right operand is a literal.
C9_Witness ==
    \E k \in 1..Len(ParsedNodes) :
        /\ ParsedNodes[k].node = "Assignment"
        /\ ParsedNodes[k].target.node = "Binary"
        /\ ParsedNodes[k].target.right.node = "Literal"

----------------------------------------------------------------------------
(* Properties of the statement grammar. *)

\* The statement() calls that parsed a `for` statement.
ForCalls == SelectSeq(calls, LAMBDA c : c.ok /\ TokenAt(c.start).type_ = "For")
\* A for statement has an initialiser when `(` is not followed by `;`.
HasInit(c) == TokenAt(c.start + 2).type_ # "Semicolon"
\* The initialiser, parsed on its own from the token after `(`.
InitOf(c) == statement([i |-> c.start + 2, l |-> TokenAt(c.start + 1).line]).v

\* C10 as stated: every parsed for statement is a Block of the initialiser
\* (if present) followed by the While; with no initialiser the Block holds
\* the While only.
C10_AlwaysBlock ==
    \A k \in 1..Len(ForCalls) :
        LET c == ForCalls[k] IN
        /\ c.v.node = "Block"
        /\ c.v.body[Len(c.v.body)].node = "While"
        /\ Len(c.v.body) = IF HasInit(c) THEN 2 ELSE 1

\* C10, amended: a parsed for statement with an initialiser is a Block of the
\* initialiser followed by the While; one without an initialiser is the While
\* statement itself, in no Block.  This holds for every combination of
\* present and absent condition and increment.
C10_BlockOnlyWithInit ==
    \A k \in 1..Len(ForCalls) :
        LET c == ForCalls[k] IN
        IF HasInit(c)
        THEN /\ c.v.node = "Block"
             /\ Len(c.v.body) = 2
             /\ c.v.body[1] = InitOf(c)
             /\ c.v.body[2].node = "While"
        ELSE c.v.node = "While"

\* for (;;) with a body, parsed to a While.
C10_Witness ==
    \E k \in 1..Len(ForCalls) :
        /\ ~HasInit(ForCalls[k])
        /\ TokenAt(ForCalls[k].start + 3).type_ = "Semicolon"
        /\ TokenAt(ForCalls[k].start + 4).type_ = "RightParen"
        /\ ForCalls[k].v.node = "While"

\* The clauses of the header of a parsed for statement and its body, each
\* parsed on its own from where it starts: init, cond and inc are a sequence
\* of length 0 (absent) or 1.
ForParts(c) ==
    LET at1 == [i |-> c.start + 2, l |-> TokenAt(c.start + 1).line]
        init == IF HasInit(c) THEN statement(at1) ELSE Ok(<<>>, at1)
        at2 == [i |-> init.i + 1, l |-> TokenAt(init.i).line]
        has_cond == TokenAt(at2.i).type_ # "Semicolon"
        cond == IF has_cond THEN expression(at2) ELSE Ok(<<>>, at2)
        at3 == [i |-> cond.i + 1, l |-> TokenAt(cond.i).line]
        has_inc == TokenAt(at3.i).type_ # "RightParen"
        inc == IF has_inc THEN statement(at3) ELSE Ok(<<>>, at3)
        body == block([i |-> inc.i + 1, l |-> TokenAt(inc.i).line])
    IN  [init |-> IF HasInit(c) THEN <<init.v>> ELSE <<>>,
         cond |-> IF has_cond THEN <<cond.v>> ELSE <<>>,
         cond_line |-> at2.l,
         inc |-> IF has_inc THEN <<inc.v>> ELSE <<>>,
         body |-> body.v]
\* The While statement a parsed for statement was turned into.
WhileOf(c) == IF c.v.node = "Block" THEN c.v.body[Len(c.v.body)] ELSE c.v

\* C11: a for statement with no initialiser parses to the While statement
\* itself, in no enclosing Block: While(cond, Block[body block, inc]).
\* for (; x < 10; x = x + 1) {var y = x} gives the tree of the test.
C11_NoInitIsWhile ==
    /\ \A k \in 1..Len(ForCalls) :
           LET c == ForCalls[k] IN
           ~HasInit(c) =>
               /\ c.v.node = "While"
               /\ ForParts(c).cond # <<>> => c.v.condition = ForParts(c).cond[1]
               /\ c.v.body.node = "Block"
               /\ c.v.body.body = <<ForParts(c).body>> \o ForParts(c).inc
    /\ pc = "done" /\ tokens = SrcForNoInit =>
           result.v = <<WhileStmt(1, Binary(1, V("x"), Op("Less"), N("10")),
               BlockStmt(1, <<BlockStmt(1, <<VarDeclStmt(1, "y", V("x"))>>),
                   ExpressionStmt(1, AssignmentExpr(1, V("x"),
                       Binary(1, V("x"), Op("Plus"), N("1"))))>>))>>

\* for (; cond; inc) body with condition and increment, parsed to a While.
C11_Witness ==
    \E k \in 1..Len(ForCalls) :
        /\ ~HasInit(ForCalls[k])
        /\ ForParts(ForCalls[k]).cond # <<>>
        /\ ForParts(ForCalls[k]).inc # <<>>
        /\ ForCalls[k].v.node = "While"

\* C12: the body of the While of a for statement is a Block whose first
\* statement is the original body, as a Block of its own, and whose second
\* statement is the increment, after and outside that Block; with no
\* increment the Block holds the body Block only; a missing condition is the
\* literal true.
C12_WhileBodyOfFor ==
    /\ \A k \in 1..Len(ForCalls) :
           LET c == ForCalls[k]
               w == WhileOf(c)
               parts == ForParts(c)
           IN  /\ w.node = "While"
               /\ w.body.node = "Block"
               /\ Len(w.body.body) = 1 + Len(parts.inc)
               /\ w.body.body[1].node = "Block"
               /\ w.body.body[1] = parts.body
               /\ parts.inc # <<>> => w.body.body[2] = parts.inc[1]
               /\ w.condition = IF parts.cond # <<>> THEN parts.cond[1]
                                ELSE Literal(parts.cond_line, <<"Bool", "true">>)
    /\ pc = "done" /\ tokens = SrcFor =>
           result.v = <<BlockStmt(1, <<VarDeclStmt(1, "x", N("5")),
               WhileStmt(1, Binary(1, V("x"), Op("Less"), N("10")),
                   BlockStmt(1, <<BlockStmt(1, <<VarDeclStmt(1, "y", V("x"))>>),
                       ExpressionStmt(1, AssignmentExpr(1, V("x"),
                           Binary(1, V("x"), Op("Plus"), N("1"))))>>))>>)>>

\* A for statement with an increment, and one with neither condition nor
\* increment.
C12_Witness ==
    \E k \in 1..Len(ForCalls) :
        /\ ForParts(ForCalls[k]).cond = <<>>
        /\ ForParts(ForCalls[k]).inc = <<>>
        /\ WhileOf(ForCalls[k]).condition.node = "Literal"
        /\ Len(WhileOf(ForCalls[k]).body.body) = 1

\* The kinds of token an expression can start with.
ExpressionStart ==
    {"True", "False", "Null", "String_", "Number", "LeftParen", "LeftSquare",
     "LeftCurly", "Identifier", "Bang", "Minus"}
\* The indices of the `return` tokens.
ReturnIndices == {p \in 0..EofIndex : TokenAt(p).type_ = "Return"}
\* statement() called with the cursor on the token at index p.
StatementAt(p) ==
    statement([i |-> p, l |-> IF p = 0 THEN 1 ELSE TokenAt(p - 1).line])

\* C13: when the token after `return` cannot start an expression, return_
\* gives Return { None } and no error, and leaves that token unconsumed.
C13_BareReturn ==
    /\ \A p \in ReturnIndices :
           TokenAt(p + 1).type_ \notin ExpressionStart =>
               /\ StatementAt(p).ok
               /\ StatementAt(p).v = ReturnStmt(TokenAt(p).line, <<>>)
               /\ StatementAt(p).i = p + 1
    /\ \A k \in 1..Len(calls) :
           /\ TokenAt(calls[k].start).type_ = "Return"
           /\ TokenAt(calls[k].start + 1).type_ \notin ExpressionStart
           => /\ calls[k].ok
              /\ calls[k].v.node = "Return"
              /\ calls[k].v.expression = <<>>
              /\ calls[k].stop = calls[k].start + 1

\* return before }, parsed at the top level.
C13_Witness ==
    \E k \in 1..Len(calls) :
        /\ TokenAt(calls[k].start).type_ = "Return"
        /\ TokenAt(calls[k].start + 1).type_ = "RightCurly"
        /\ calls[k].ok
        /\ calls[k].v.expression = <<>>

\* C14 as stated: whenever return_ gives Return { None }, no token after the
\* `return` keyword has been consumed.
C14_SwallowedOnlyAfterReturn ==
    \A k \in 1..Len(calls) :
        /\ TokenAt(calls[k].start).type_ = "Return"
        /\ calls[k].ok
        /\ calls[k].v.expression = <<>>
        => calls[k].stop = calls[k].start + 1

\* The shape  func Identifier ( [Identifier {, Identifier}] ) {  read off the
\* tokens after the `func` at index p: the first place that departs from it
\* (as the error it calls for), or the name, the parameters and the index of
\* the `{` of the body.
RECURSIVE ScanParameters(_, _)
ScanParameters(q, names) ==
    IF TokenAt(q).type_ # "Identifier" THEN [bad |-> TRUE, kind |-> "ExpectedParameterName"]
    ELSE IF TokenAt(q + 1).type_ = "Comma"
         THEN ScanParameters(q + 2, Append(names, TokenAt(q).lexeme))
         ELSE [bad |-> FALSE, names |-> Append(names, TokenAt(q).lexeme), next |-> q + 1]
Missing(char) == [bad |-> TRUE, kind |-> "ExpectedCharacter", expected |-> char]
ScanFunction(p) ==
    IF TokenAt(p + 1).type_ # "Identifier" THEN [bad |-> TRUE, kind |-> "ExpectedFunctionName"]
    ELSE IF TokenAt(p + 2).type_ # "LeftParen" THEN Missing("(")
    ELSE LET ps == IF TokenAt(p + 3).type_ = "RightParen"
                   THEN [bad |-> FALSE, names |-> <<>>, next |-> p + 3]
                   ELSE ScanParameters(p + 3, <<>>)
         IN  IF ps.bad THEN ps
             ELSE IF TokenAt(ps.next).type_ # "RightParen" THEN Missing(")")
             ELSE IF TokenAt(ps.next + 1).type_ # "LeftCurly" THEN Missing("{")
             ELSE [bad |-> FALSE, name |-> TokenAt(p + 1).lexeme, names |-> ps.names,
                   body |-> ps.next + 1]
FuncCallsMade == SelectSeq(calls, LAMBDA c : TokenAt(c.start).type_ = "Func")

\* C15: a function declaration is accepted exactly when it has the shape
\* func Identifier ( [Identifier {, Identifier}] ) { statements }.  A name
\* that is no Identifier gives ExpectedFunctionName, a non-Identifier where a
\* parameter is expected (also after a trailing comma) ExpectedParameterName,
\* a missing (, ) or { ExpectedCharacter with that character; on success the
\* Function node holds the name and the parameters in source order.
C15_FunctionShape ==
    \A k \in 1..Len(FuncCallsMade) :
        LET c == FuncCallsMade[k]
            scan == ScanFunction(c.start)
        IN  IF scan.bad
            THEN /\ ~c.ok
                 /\ c.v.kind = scan.kind
                 /\ scan.kind = "ExpectedCharacter" => c.v.expected = scan.expected
            ELSE LET body == block([i |-> scan.body, l |-> TokenAt(scan.body - 1).line])
                 IN  /\ c.ok <=> body.ok
                     /\ ~c.ok => c.v = body.v
                     /\ c.ok => /\ c.v.node = "Function"
                                /\ c.v.name = scan.name
                                /\ c.v.parameters = scan.names
                                /\ c.v.body = body.v

\* A declaration with two parameters that was accepted.
C15_Witness ==
    \E k \in 1..Len(FuncCallsMade) :
        /\ FuncCallsMade[k].ok
        /\ Len(FuncCallsMade[k].v.parameters) = 2

ExpressionNodes ==
    {"Literal", "Grouping", "Unary", "Binary", "Assignment", "Variable", "Call",
     "Element", "Array", "Dictionary"}
\* The operand an expression starts with, reached through the left operands
\* of the binary operators and the targets of the assignments.
RECURSIVE Leftmost(_), UnaryRun(_), LeadingPrefix(_)
Leftmost(e) ==
    CASE e.node = "Binary" -> Leftmost(e.left)
      [] e.node = "Assignment" -> Leftmost(e.target)
      [] OTHER -> e
\* The operators of the Unary nodes nested in e, outermost first.
UnaryRun(e) ==
    IF e.node = "Unary"
    THEN << <<e.operator.type_, e.operator.lexeme>> >> \o UnaryRun(e.right)
    ELSE <<>>
\* The ! and - tokens a token sequence starts with.
LeadingPrefix(toks) ==
    IF toks # <<>> /\ Head(toks)[1] \in {"Bang", "Minus"}
    THEN <<Head(toks)>> \o LeadingPrefix(Tail(toks))
    ELSE <<>>

\* C16: unary operators are right-recursive and bind tighter than every
\* binary operator.  The n prefix tokens an operand starts with, at the start
\* of an expression or after a binary operator, are n nested Unary nodes in
\* source order, the operand of a Unary node is never built by a binary level,
\* !!--5 is !(!(-(-5))) and 5--4 is Binary(5, -, Unary(-, 4)).
C16_UnaryRightRecursive ==
    /\ \A k \in 1..Len(ParsedNodes) :
           LET n == ParsedNodes[k] IN
           /\ n.node = "Unary" =>
                  n.operator.type_ \in {"Bang", "Minus"} /\ Level(n.right) >= 8
           /\ n.node \in ExpressionNodes =>
                  UnaryRun(Leftmost(n)) = LeadingPrefix(Unparse(n))
    /\ \A k \in 1..Len(ExpressionCalls) :
           LET c == ExpressionCalls[k] IN
           UnaryRun(Leftmost(c.v.expression)) = LeadingPrefix(Consumed(c.start, c.stop))
    /\ pc = "done" /\ tokens \in UnarySources => result.ok
    /\ pc = "done" /\ tokens = SrcUnary =>
           result.v = <<ExpressionStmt(1, Unary(1, Op("Bang"), Unary(1, Op("Bang"),
               Unary(1, Op("Minus"), Unary(1, Op("Minus"), N("5"))))))>>
    /\ pc = "done" /\ tokens = SrcEtc =>
           result.v = <<ExpressionStmt(1,
               Binary(1, N("5"), Op("Minus"), Unary(1, Op("Minus"), N("4"))))>>

\* A run of three prefix operators after a binary operator.
C16_Witness ==
    \E k \in 1..Len(ParsedNodes) :
        /\ ParsedNodes[k].node = "Binary"
        /\ Len(UnaryRun(ParsedNodes[k].right)) = 3

\* The token type each character named by an ExpectedCharacter error stands for.
CharType ==
    "(" :> "LeftParen" @@ ")" :> "RightParen" @@ "{" :> "LeftCurly" @@
    "}" :> "RightCurly" @@ "]" :> "RightSquare" @@ "=" :> "Equal"
FirstError(ch) ==
    pc = "done" => ~result.ok /\ result.v[1] = ExpectedCharacter(ch, 1)

LineBefore(index) == IF index = 0 THEN 1 ELSE TokenAt(index - 1).line
\* The tokens from `from` up to and including `to` are all on one line.
OnOneLine(from, to) == \A j \in from..to : TokenAt(j).line = TokenAt(from).line
ErrorLineIsLastConsumed ==
    \A k \in 1..Len(FailedCalls) :
        LET c == FailedCalls[k] IN
        /\ c.v.line = LineBefore(c.stop)
        /\ c.v.line <= TokenAt(c.stop).line
        /\ pc = "done" => result.v[k] = c.v

\* C18 as stated: an error carries the line of the last token consumed before
\* the failure (1 if there is none), never more than the offending token's
\* line, and a malformed construct whose tokens, the offending one included,
\* all lie on line N is reported on line N.
C18_ConstructLine ==
    /\ ErrorLineIsLastConsumed
    /\ \A k \in 1..Len(FailedCalls) :
           LET c == FailedCalls[k] IN
           OnOneLine(c.start, c.stop) => c.v.line = TokenAt(c.start).line

\* C18, amended: an error carries the line of the last token consumed before
\* the failure (1 if there is none), never more than the offending token's
\* line; a malformed construct is reported on line N when the tokens the
\* parser consumed from it are all on line N and there is at least one.
C18_ErrorLine ==
    /\ ErrorLineIsLastConsumed
    /\ \A k \in 1..Len(FailedCalls) :
           LET c == FailedCalls[k] IN
           c.stop > c.start /\ OnOneLine(c.start, c.stop - 1) =>
               c.v.line = TokenAt(c.start).line

\* parse has returned two errors, the second one for a statement that stands
\* on line 2, fails on its first token and is reported on line 1.
C18_Witness ==
    /\ pc = "done"
    /\ Len(FailedCalls) = 2
    /\ LET c == FailedCalls[2] IN
       /\ c.stop = c.start
       /\ TokenAt(c.start).line = 2
       /\ result.v[2].line = 1

\* parse has returned Err, its first error is `error`, and no statement it
\* collected is a While or a Block.
ForHeaderError(error) ==
    pc = "done" =>
        /\ ~result.ok
        /\ result.v[1] = error
        /\ \A k \in 1..Len(statements) : statements[k].node \notin {"While", "Block"}

\* C19: a malformed for header is reported with the error of the first
\* position that fails.  A missing `(` gives ExpectedCharacter '(', a missing
\* `;` after the initialiser ExpectedSemicolonAfterInit, a missing `;` after
\* the condition ExpectedSemicolonAfterCondition, a missing `)` after the
\* increment ExpectedParenAfterIncrement, on the line of the token in front;
\* the token at the failure is not the delimiter, and no While or Block
\* statement comes out.
C19_ForHeaderErrors ==
    /\ \A k \in 1..Len(FailedCalls) :
           LET c == FailedCalls[k] IN
           /\ c.v.kind \in {"ExpectedSemicolonAfterInit", "ExpectedSemicolonAfterCondition"}
                  => TokenAt(c.stop).type_ # "Semicolon"
           /\ c.v.kind = "ExpectedParenAfterIncrement" => TokenAt(c.stop).type_ # "RightParen"
           /\ TokenAt(c.start).type_ = "For" =>
                  (TokenAt(c.start + 1).type_ # "LeftParen"
                       <=> c.stop = c.start + 1 /\ c.v.kind = "ExpectedCharacter"
                               /\ c.v.expected = "(")
    /\ tokens \in ForNoOpen => ForHeaderError(ExpectedCharacter("(", 1))
    /\ tokens \in ForNoInitSemi => ForHeaderError(ErrorAt("ExpectedSemicolonAfterInit", 1))
    /\ tokens \in ForNoCondSemi => ForHeaderError(ErrorAt("ExpectedSemicolonAfterCondition", 2))
    /\ tokens \in ForNoClose => ForHeaderError(ErrorAt("ExpectedParenAfterIncrement", 2))
    /\ tokens = SrcForNoInitSemicolon => ForHeaderError(ErrorAt("ExpectedSemicolonAfterInit", 1))
    /\ tokens = SrcForNoCondSemicolon =>
           ForHeaderError(ErrorAt("ExpectedSemicolonAfterCondition", 1))
    /\ tokens = SrcUnclosedFor => ForHeaderError(ErrorAt("ExpectedParenAfterIncrement", 1))

\* parse has returned Err for a for statement without the `;` after its
\* condition, after collecting a statement behind it.
C19_Witness ==
    /\ pc = "done"
    /\ tokens \in ForNoCondSemi
    /\ result.v[1] = ErrorAt("ExpectedSemicolonAfterCondition", 2)
    /\ Len(statements) > 0

UnitFailed == tokenize_result = "Err" \/ errors # <<>>

\* C20: run calls interpreter.interpret at most once per source unit, and
\* only with the statements parse returned after tokenize and parse have both
\* returned Ok.  When either fails nothing is ever handed to the interpreter,
\* whatever statements were collected before the first malformed one, and
\* run returns.
C20_InterpretOnlyAfterOk ==
    /\ [](Len(interpreted) <= 1)
    /\ [](interpreted # <<>> =>
              /\ tokenize_result = "Ok"
              /\ pc = "done" /\ result.ok
              /\ interpreted = <<result.v>>)
    /\ [](UnitFailed => interpreted = <<>> /\ run_pc # "interpret")
    /\ [](pc # "panic")
    /\ (UnitFailed ~> (run_pc = "returned" /\ interpreted = <<>>))

\* run has returned after a parse that collected a statement and then an
\* error, and the interpreter has not been called.
C20_Witness ==
    /\ run_pc = "returned"
    /\ tokenize_result = "Ok"
    /\ calls # <<>> /\ calls[1].ok
    /\ errors # <<>>
    /\ interpreted = <<>>

\* C21: the interactive loop creates one Interpreter before it reads a line
\* and hands that instance to run for every line, in input order; a line is
\* read only when run has returned for the line before; after a line that
\* fails to lex or parse the loop is back at its start with the same
\* interpreter.
C21_OneInterpreterForEveryLine ==
    /\ [](interpreters <= 1)
    /\ [](Len(runs) = lines_read)
    /\ [](\A k \in 1..Len(runs) : runs[k] = [line |-> k, interpreter |-> 1])
    /\ [](Len(interpreted) <= lines_read)
    /\ [][lines_read' # lines_read =>
              /\ lines_read' = lines_read + 1
              /\ interpreters = 1
              /\ run_pc \in {"none", "returned"}
              /\ interpreted' = interpreted]_vars
    /\ [][main_pc = "run" => main_pc' \in {"run", "prompt"}]_vars
    /\ ((main_pc = "run" /\ UnitFailed) ~> (main_pc = "prompt" /\ interpreters = 1))

\* Two lines have been run: the first failed to parse and was reported, the
\* second parsed and went to the interpreter.
C21_Witness ==
    /\ main_pc = "prompt"
    /\ lines_read = 2
    /\ reported # <<>>
    /\ errors = <<>>
    /\ tokenize_result = "Ok"
    /\ Len(interpreted) = 1

\* C22: started with exactly one argument, the program lexes, parses and
\* evaluates the file's text: when main has returned, run has been called.
C22_FileIsRun ==
    (args = 2 /\ main_pc \in {"returned", "exit64"}) => runs # <<>> \/ run_pc # "none"

Banner == <<"An error has occurred.">>
\* A written line that starts with "Line " and the number of a source line.
StatesLine(written, error) ==
    /\ Len(written) >= 2
    /\ written[1] = "Line "
    /\ "line" \in DOMAIN error
    /\ written[2] = error.line

\* C23: report_errors writes the banner once, then one line per error in
\* list order, each stating the source line of its error; parse calls it
\* once when it returns Err and not at all when it returns Ok.
C23_EveryLineStatesItsLine ==
    /\ pc = "reported" =>
           /\ Len(reported) = Len(errors) + 1
           /\ \A k \in 1..Len(reported) : reported[k] = Banner <=> k = 1
           /\ \A k \in 1..Len(errors) :
                  /\ reported[k + 1] = print_report(errors[k])
                  /\ StatesLine(reported[k + 1], errors[k])
    /\ pc = "done" =>
           reported = IF result.ok THEN <<>> ELSE report_errors(result.v)

\* The part of C23 that holds: the banner once, then print_report of every
\* error in order, a line number in all of them but UnterminatedString; parse
\* reports once on Err and never on Ok.
ReportedInOrder ==
    /\ pc = "reported" =>
           /\ Len(reported) = Len(errors) + 1
           /\ \A k \in 1..Len(reported) : reported[k] = Banner <=> k = 1
           /\ \A k \in 1..Len(errors) :
                  /\ reported[k + 1] = print_report(errors[k])
                  /\ errors[k].kind # "UnterminatedString"
                         => StatesLine(reported[k + 1], errors[k])
    /\ pc = "done" =>
           reported = IF result.ok THEN <<>> ELSE report_errors(result.v)
    /\ pc = "loop" => reported = <<>>

\* The line of the node a top-level statement() call returned lies between
\* the lines of the first and the last token the call consumed.
LineWithinOwnTokens(c) ==
    /\ TokenAt(c.start).line <= c.v.line
    /\ c.v.line <= TokenAt(c.stop - 1).line

\* C24: every node parse returns carries a line on which one of its own
\* tokens occurs; an Expression statement starting on a later line than the
\* previous statement does not carry the previous statement's line.
C24_NodeLineIsOwnLine ==
    \A k \in 1..Len(OkCalls) : LineWithinOwnTokens(OkCalls[k])

\* What does hold: a statement that starts with its keyword carries a line
\* of its own tokens; an Expression statement carries the line of the token
\* consumed before it (line 1 at the start of the program).
StatementLineIsCursorLine ==
    \A k \in 1..Len(OkCalls) :
        LET c == OkCalls[k] IN
            IF c.v.node = "Expression"
            THEN c.v.line = c.line
            ELSE LineWithinOwnTokens(c)

\* A statement that declares a variable or assigns to one.
DeclaresOrAssigns(stmt) ==
    \/ stmt.node = "VarDecl"
    \/ stmt.node = "Expression" /\ stmt.expression.node = "Assignment"

\* C25: the initialiser of a for header can only be a variable declaration
\* or an assignment; a header with any other statement there is rejected
\* with a parse error, so no parsed for statement has one.
C25_InitialiserDeclaresOrAssigns ==
    \A k \in 1..Len(ForCalls) :
        HasInit(ForCalls[k]) => DeclaresOrAssigns(InitOf(ForCalls[k]))

\* What does hold: the initialiser is whatever statement() parses at that
\* place, a break as well as a bare variable, and it is desugared like any
\* other initialiser.
InitialiserIsAnyStatement ==
    \A k \in 1..Len(ForCalls) :
        LET c == ForCalls[k] IN
            HasInit(c) =>
                /\ InitOf(c) = statement([i |-> c.start + 2,
                                          l |-> TokenAt(c.start + 1).line]).v
                /\ c.v = BlockStmt(c.v.line, <<InitOf(c), WhileOf(c)>>)

\* The primary an expression starts with, reached through left operands,
\* assignment targets, indexed arrays and callees.
RECURSIVE FirstPrimary(_)
FirstPrimary(e) ==
    CASE e.node = "Binary" -> FirstPrimary(e.left)
      [] e.node = "Assignment" -> FirstPrimary(e.target)
      [] e.node = "Element" -> FirstPrimary(e.array)
      [] e.node = "Call" -> FirstPrimary(e.callee)
      [] OTHER -> e

\* C26: a `{` at statement position never opens a block statement:
\* statement() parses it as the start of an expression, a dictionary
\* literal; the only statement() calls of parse that return a Block are those
\* on a `for`, so every other Block is one that if_, else_body, while_,
\* function or for_ built.  statement() is tried at every `{` of the tokens
\* once, before the first iteration: the tokens never change.
C26_CurlyIsDictionary ==
    /\ calls = <<>> =>
           \A i \in 0..(EofIndex - 1) :
               TokenAt(i).type_ = "LeftCurly" =>
                   LET r == StatementAt(i) IN
                       r.ok => /\ r.v.node = "Expression"
                               /\ FirstPrimary(r.v.expression).node = "Dictionary"
    /\ \A k \in 1..Len(OkCalls) :
           LET c == OkCalls[k] IN
               /\ TokenAt(c.start).type_ = "LeftCurly" => c.v.node = "Expression"
               /\ c.v.node = "Block" => TokenAt(c.start).type_ = "For"

\* `{}` at the start of a statement, parsed to an Expression statement
\* holding an empty dictionary.
C26_Witness ==
    \E k \in 1..Len(OkCalls) :
        /\ TokenAt(OkCalls[k].start).type_ = "LeftCurly"
        /\ OkCalls[k].v.node = "Expression"
        /\ OkCalls[k].v.expression = DictionaryExpr(OkCalls[k].v.expression.line, <<>>)

\* The expression the grammar gives a primary followed by postfix
\* operations: the calls directly after the primary nest to the left around
\* it, the indexes after those nest to the left around that, and the
\* expression ends in front of the first call that follows an index.
RECURSIVE WrapCalls(_, _, _), WrapIndexes(_, _, _)
WrapIndexes(e, ops, k) ==
    IF k > Len(ops) \/ ops[k] # "index" THEN [e |-> e, next |-> k]
    ELSE WrapIndexes(ElementExpr(1, e, N("1")), ops, k + 1)
WrapCalls(e, ops, k) ==
    IF k > Len(ops) \/ ops[k] = "index" THEN WrapIndexes(e, ops, k)
    ELSE WrapCalls(CallExpr(1, e, IF ops[k] = "call" THEN <<N("1")>> ELSE <<>>), ops, k + 1)
LeadNode(lead) ==
    IF lead = <<Id("a")>> THEN V("a") ELSE Grouping(1, ElementExpr(1, V("a"), N("1")))
RECURSIVE PostfixLength(_, _)
PostfixLength(ops, k) ==
    IF k = 0 THEN 0 ELSE Len(PostfixTokens(ops[k])) + PostfixLength(ops, k - 1)
CallNodes == SelectSeq(ParsedNodes, LAMBDA n : n.node = "Call")
\* a[1](1)
SrcIndexThenCall == PostfixSource(<<Id("a")>>, <<"index", "call">>)

\* C27: element -> call ("[" expr "]")* and call -> primary ("(" args? ")")*:
\* repeated indexes and repeated calls nest to the left, an index may wrap a
\* call, and the callee of a Call is never an Element that is not in
\* parentheses; in a[1](1) the (1) is a second Expression statement, a
\* Grouping, and there is no error.
C27_PostfixGrammar ==
    /\ \A k \in 1..Len(CallNodes) : CallNodes[k].callee.node # "Element"
    /\ tokens \in PostfixSources /\ calls # <<>> =>
           \A lead \in PostfixLeads : \A ops \in SeqsUpTo(PostfixOps, MaxPostfix) :
               tokens = PostfixSource(lead, ops) =>
                   LET w == WrapCalls(LeadNode(lead), ops, 1) IN
                       /\ calls[1].ok
                       /\ calls[1].v = ExpressionStmt(1, w.e)
                       /\ calls[1].stop = Len(lead) + PostfixLength(ops, w.next - 1)
    /\ pc = "done" /\ tokens = SrcIndexThenCall =>
           /\ result.ok
           /\ result.v = <<ExpressionStmt(1, ElementExpr(1, V("a"), N("1"))),
                           ExpressionStmt(1, Grouping(1, N("1")))>>
    /\ pc = "done" /\ tokens = PostfixSource(<<Id("a")>>, <<"index", "index">>) =>
           result.v = <<ExpressionStmt(1,
                           ElementExpr(1, ElementExpr(1, V("a"), N("1")), N("1")))>>
    /\ pc = "done" /\ tokens = PostfixSource(<<Id("a")>>, <<"call", "call_empty">>) =>
           result.v = <<ExpressionStmt(1,
                           CallExpr(1, CallExpr(1, V("a"), <<N("1")>>), <<>>))>>
    /\ pc = "done" /\ tokens = PostfixSource(<<Id("a")>>, <<"call", "index">>) =>
           result.v = <<ExpressionStmt(1,
                           ElementExpr(1, CallExpr(1, V("a"), <<N("1")>>), N("1")))>>

\* a[1](1) parsed to the end: two statements and no error.
C27_Witness ==
    /\ pc = "done"
    /\ tokens = SrcIndexThenCall
    /\ result.ok
    /\ Len(result.v) = 2

\* One iteration of parse's loop moves the cursor forward, or parse returns
\* with the cursor on Eof; so there are never more iterations behind than
\* tokens, and the statement() call and the sync() of every iteration each
\* end no earlier than they began.
IterationAdvances ==
    pc = "loop" =>
        /\ pc' \in {"loop", "done"}
        /\ pc' = "loop" => current_index < current_index' /\ current_index' <= EofIndex
        /\ pc' = "done" => current_index' = current_index /\ current_index = EofIndex
        /\ Len(calls') <= current_index'
        /\ \A k \in 1..Len(calls') :
               /\ calls'[k].start <= calls'[k].stop
               /\ calls'[k].stop <= calls'[k].resume
               /\ calls'[k].start < calls'[k].resume
               /\ calls'[k].ok => calls'[k].start < calls'[k].stop

\* C28: parse terminates on every token sequence ending in its only Eof:
\* each iteration of its loop, a statement() call followed by sync() on an
\* error, leaves the cursor strictly further than where it started, until
\* the cursor is on Eof and parse returns.
C28_EveryIterationAdvances == [][IterationAdvances]_vars

\* An iteration in which statement() failed without consuming a token and
\* sync() moved the cursor on.
C28_Witness ==
    \E k \in 1..Len(calls) :
        /\ ~calls[k].ok
        /\ calls[k].stop = calls[k].start
        /\ calls[k].resume > calls[k].start

\* C29: the cursor never passes the Eof token: no statement() call consumes
\* it with check_and_consume or expect, sync stops on it from whatever index
\* it starts, and the indexing tokens[current_index] in sync stays in range.
C29_CursorNeverPastEof ==
    /\ current_index <= EofIndex
    /\ pc # "panic"
    /\ \A k \in 1..Len(calls) :
           calls[k].stop <= EofIndex /\ calls[k].resume <= EofIndex
    /\ calls = <<>> =>
           \A i \in 0..EofIndex :
               LET s == [i |-> i, l |-> 1] IN
                   sync(s).i <= EofIndex /\ ~sync(s).panic

\* statement() failed with the cursor on Eof, or sync() ran up to Eof, and the
\* cursor stayed there.
C29_Witness ==
    /\ current_index = EofIndex
    /\ \E k \in 1..Len(calls) :
           /\ ~calls[k].ok
           /\ calls[k].resume = EofIndex
           /\ calls[k].stop = EofIndex \/ calls[k].stop < calls[k].resume

\* The kinds of error of syntax analysis.
SyntaxKinds ==
    {"ExpectedCharacter", "ExpectedExpression", "ExpectedFunctionName",
     "ExpectedParameterName", "ExpectedVariableName", "ExpectedSemicolonAfterInit",
     "ExpectedSemicolonAfterCondition", "ExpectedParenAfterIncrement",
     "ExpectedColonAfterKey"}

\* C30: every error parse collects or returns is of one of the nine kinds of
\* syntax error; a `break` always parses to a Break, at whatever index
\* statement() meets it, and a `return` at the start of a statement parses to
\* a Return unless the expression after it has an error of its own.
C30_OnlySyntaxErrors ==
    /\ \A k \in 1..Len(errors) : errors[k].kind \in SyntaxKinds
    /\ pc = "done" /\ ~result.ok =>
           \A k \in 1..Len(result.v) : result.v[k].kind \in SyntaxKinds
    /\ \A i \in 0..EofIndex :
           TokenAt(i).type_ = "Break" =>
               LET r == StatementAt(i) IN r.ok /\ r.v.node = "Break" /\ r.i = i + 1
    /\ \A k \in 1..Len(calls) :
           LET c == calls[k] IN
               /\ TokenAt(c.start).type_ = "Break" => c.ok /\ c.v.node = "Break"
               /\ TokenAt(c.start).type_ = "Return" =>
                      IF c.ok THEN c.v.node = "Return"
                      ELSE LET e == expression([i |-> c.start + 1,
                                                l |-> TokenAt(c.start).line])
                           IN  ~e.ok /\ c.v = e.v /\ e.v.kind # "ExpectedExpression"

\* A program with a `break` and a `return` at top level, parsed without error.
C30_Witness ==
    /\ pc = "done"
    /\ result.ok
    /\ \E j, k \in 1..Len(result.v) :
           result.v[j].node = "Break" /\ result.v[k].node = "Return"

====
